---- MODULE Spec2Model ----
(***************************************************************************)
(* nanoBASIC UNO: the interpreter engine of src/src/nano_basic_uno.cpp as  *)
(* a state machine.  The globals of the C file are the variables, every    *)
(* C function is an operator of the same name that maps a record of the    *)
(* globals to the record after the call, and the actions are the places    *)
(* where the interpreter takes console input: one REPL line, one PROG      *)
(* line, one pass of interpreterMain's dispatch loop.                      *)
(***************************************************************************)
EXTENDS Integers, Sequences, FiniteSets, TLC

(***************************************************************************)
(* Build settings (nano_basic_uno_conf.h) and language codes               *)
(* (nano_basic_uno.h).                                                     *)
(***************************************************************************)
INPUT_BUFF_SIZE   == 80
CODE_BUFF_SIZE    == 80
STACK_NUM         == 8
ARRAY_INDEX_NUM   == 64
PROGRAM_AREA_SIZE == 768
AUTORUN_WAIT_TIME == 3000
EXPR_DEPTH_MAX    == 16
VARIABLE_NUM      == 26

ASCII_SP   == 32
CHR_BREAK  == 3
CHR_PROG_TERM == 35

ST_EOL     == 0
ST_VAL     == 8
ST_VAL_DEC == 8
ST_VAL_HEX == 12
ST_STRING  == 34
ST_ARRAY   == 64
ST_COMMENT == 39

TOKEN_START  == 128
STCODE_START == 128
ST_PRINT    == 128
ST_INPUT    == 129
ST_GOTO     == 130
ST_GOSUB    == 131
ST_RETURN   == 132
ST_FOR      == 133
ST_NEXT     == 134
ST_DO       == 135
ST_LOOP     == 136
ST_WHILE    == 137
ST_IF       == 138
ST_RUN      == 139
ST_RESUME   == 140
ST_STOP     == 141
ST_END      == 142
ST_NEW      == 143
ST_LIST     == 144
ST_PROG     == 145
ST_SAVE     == 146
ST_LOAD     == 147
ST_DELAY    == 148
ST_PAUSE    == 149
ST_RESET    == 150
ST_EXIT     == 151
ST_CONTINUE == 152
ST_RONDOMIZE == 153
ST_DATA     == 154
ST_READ     == 155
ST_RESTORE  == 156
ST_OUTP     == 157
ST_PWM      == 158
STSP_START  == 159
ST_ELSE     == 159
ST_ELSEIF   == 160
ST_ENDIF    == 161
STCODE_END  == 161
ST_THEN     == 162
ST_TO       == 163
ST_STEP     == 164
STSP_END    == 164
FUNC_START  == 165
FUNC_RND    == 165
FUNC_ABS    == 166
FUNC_INP    == 167
FUNC_ADC    == 168
FUNC_INKEY  == 169
FUNC_CHR    == 170
FUNC_DEC    == 171
FUNC_HEX    == 172
SVAR_TICK   == 173

ERROR_NONE      == 0
ERROR_BREAK     == 255
ERROR_SYNTAX    == 1
ERROR_DIVZERO   == 2
ERROR_ARRAY     == 3
ERROR_PARA      == 4
ERROR_STACK     == 5
ERROR_RESUME    == 6
ERROR_LABEL     == 7
ERROR_NOTINRUN  == 8
ERROR_PGOVER    == 9
ERROR_PGEMPTY   == 10
ERROR_NOLOOP    == 11
ERROR_NOENDIF   == 12
ERROR_TOODEEP   == 13
ERROR_UXNEXT    == 14
ERROR_UXRETURN  == 15
ERROR_UXLOOP    == 16
ERROR_UXEXIT    == 17
ERROR_UXCONTINUE == 18
ERROR_UXREAD    == 19

REQUEST_NOTHING == 0
REQUEST_GOTO    == 1
REQUEST_END     == 2

VAL_ST_MASK   == 248
VAL_BASE_HEX  == 4
VAL_SIZE_MASK == 3

FORM_FLAG  == 1
FORM_PLUS  == 2
FORM_HEX   == 4
FORM_DEC   == 128
FORM_ZERO  == 16
FORM_LOWER == 32
PRINT_HEX_STYLE == 0

\* The null pointer.  Pointers into programArea are its indices; pointers
\* into internalcodeBuff are CodeBase + index (the two arrays are disjoint).
NULL == 0 - 1
CodeBase == PROGRAM_AREA_SIZE + CODE_BUFF_SIZE

(***************************************************************************)
(* Characters.  A raw line is a sequence of character codes; Ord gives the *)
(* code of a one-character string.                                         *)
(***************************************************************************)
Printable ==
  << " ", "!", "\"", "#", "$", "%", "&", "'", "(", ")", "*", "+", ",", "-", ".", "/",
     "0", "1", "2", "3", "4", "5", "6", "7", "8", "9", ":", ";", "<", "=", ">", "?",
     "@", "A", "B", "C", "D", "E", "F", "G", "H", "I", "J", "K", "L", "M", "N", "O",
     "P", "Q", "R", "S", "T", "U", "V", "W", "X", "Y", "Z", "[", "\\", "]", "^", "_",
     "backquote", "a", "b", "c", "d", "e", "f", "g", "h", "i", "j", "k", "l", "m", "n", "o",
     "p", "q", "r", "s", "t", "u", "v", "w", "x", "y", "z", "{", "|", "}", "~" >>

OrdTable == [c \in {Printable[i] : i \in 1..Len(Printable)} |->
               (ASCII_SP - 1) + (CHOOSE i \in 1..Len(Printable) : Printable[i] = c)]
Ord(c) == OrdTable[c]

\* keyWordList, in opcode order from TOKEN_START.
keyWordList ==
  << <<"P","r","i","n","t">>, <<"I","n","p","u","t">>, <<"G","o","t","o">>,
     <<"G","o","s","u","b">>, <<"R","e","t","u","r","n">>, <<"F","o","r">>,
     <<"N","e","x","t">>, <<"D","o">>, <<"L","o","o","p">>, <<"W","h","i","l","e">>,
     <<"I","f">>, <<"R","u","n">>, <<"R","e","s","u","m","e">>, <<"S","t","o","p">>,
     <<"E","n","d">>, <<"N","e","w">>, <<"L","i","s","t">>, <<"P","r","o","g">>,
     <<"S","a","v","e">>, <<"L","o","a","d">>, <<"D","e","l","a","y">>,
     <<"P","a","u","s","e">>, <<"R","e","s","e","t">>, <<"E","x","i","t">>,
     <<"C","o","n","t","i","n","u","e">>, <<"R","a","n","d","o","m","i","z","e">>,
     <<"D","a","t","a">>, <<"R","e","a","d">>, <<"R","e","s","t","o","r","e">>,
     <<"O","u","t","p">>, <<"P","w","m">>, <<"E","l","s","e">>,
     <<"E","l","s","e","I","f">>, <<"E","n","d","I","f">>, <<"T","h","e","n">>,
     <<"T","o">>, <<"S","t","e","p">>, <<"R","n","d">>, <<"A","b","s">>,
     <<"I","n","p">>, <<"A","d","c">>, <<"I","n","k","e","y">>, <<"C","h","r">>,
     <<"D","e","c">>, <<"H","e","x">>, <<"T","i","c","k">> >>

Codes(cs) == [i \in 1..Len(cs) |-> Ord(cs[i])]

\* ctype.h on character codes.
isdigit(c)  == c >= Ord("0") /\ c <= Ord("9")
isupper(c)  == c >= Ord("A") /\ c <= Ord("Z")
islower(c)  == c >= Ord("a") /\ c <= Ord("z")
toupper(c)  == IF islower(c) THEN c - ASCII_SP ELSE c
isxdigit(c) == isdigit(c) \/ (toupper(c) >= Ord("A") /\ toupper(c) <= Ord("F"))

(***************************************************************************)
(* nb_int_t is int16_t (NANOBASIC_INT32_EN = 0): arithmetic keeps 16 bits. *)
(***************************************************************************)
INT_BITS == 16
RECURSIVE Pow2(_)
Pow2(n) == IF n = 0 THEN 1 ELSE 2 * Pow2(n - 1)
IntMod  == Pow2(INT_BITS)
U16(x)  == x % IntMod
S16(u)  == IF u >= IntMod \div 2 THEN u - IntMod ELSE u
Wrap(x) == S16(U16(x))
S8(b)   == IF b >= 128 THEN b - 256 ELSE b

IS_ST_VAL(c)     == (c \div 8) * 8 = ST_VAL
IS_ST_VAL_DEC(c) == (c \div 4) * 4 = ST_VAL_DEC
IS_VAL(c)        == IS_ST_VAL(c) \/ isdigit(c)
GET_VAL_SIZE(c)  == (c % (VAL_SIZE_MASK + 1)) + 1
IS_VALID_CHR(c)  == c < Ord("?") \/ c = Ord("^") \/ c = Ord("|") \/ c = Ord("~")
                    \/ c = Ord("[") \/ c = Ord("]")

(***************************************************************************)
(* hex2byte, hex2val, dec2val: [v, i] is the value and the index after it. *)
(***************************************************************************)
At(src, i) == IF i <= Len(src) THEN src[i] ELSE 0

hex2byte(ch) ==
  IF isdigit(ch) THEN ch - Ord("0")
  ELSE IF ch >= Ord("A") /\ ch <= Ord("F") THEN ch - Ord("A") + 10
  ELSE IF ch >= Ord("a") /\ ch <= Ord("f") THEN ch - Ord("a") + 10
  ELSE 16

RECURSIVE hex2valLoop(_, _, _)
hex2valLoop(src, i, v) ==
  IF hex2byte(At(src, i)) < 16
    THEN hex2valLoop(src, i + 1, Wrap(v * 16 + hex2byte(At(src, i))))
    ELSE [v |-> v, i |-> i]
hex2val(src, i) == hex2valLoop(src, i, 0)

RECURSIVE dec2valLoop(_, _, _)
dec2valLoop(src, i, v) ==
  IF isdigit(At(src, i))
    THEN dec2valLoop(src, i + 1, Wrap(v * 10 + (At(src, i) - Ord("0"))))
    ELSE [v |-> v, i |-> i]
dec2val(src, i) == dec2valLoop(src, i, 0)

(***************************************************************************)
(* set_dec_val: the bytes written at ptr, whose first byte was preset to   *)
(* tag (ST_VAL_DEC or ST_VAL_HEX).                                         *)
(***************************************************************************)
\* an encoder without the one-byte forms.
set_dec_val_wide(tag, val) == << tag + 1, U16(val) % 256, U16(val) \div 256 >>
set_dec_val(tag, val) ==
  IF tag = ST_VAL_DEC /\ val >= 0 /\ val <= 9 THEN << val + Ord("0") >>
  ELSE IF val >= 0 - 128 /\ val <= 127 THEN << tag, U16(val) % 256 >>
  ELSE << tag + 1, U16(val) % 256, U16(val) \div 256 >>

(***************************************************************************)
(* convertInternalCode.  t.dst holds the bytes written after the length    *)
(* byte (dst - topptr = Len(t.dst) + 1); the result is [len, dst, err].    *)
(***************************************************************************)
TokErr(t, e) == [len |-> 0, dst |-> t.dst, err |-> e, eol |-> FALSE]

\* the keyword search of lines 849-874: the index of the first keyword that
\* matches at src[i] and is not followed by a letter, or 0.
KwMatches(src, i, kw) ==
  /\ \A k \in 1..Len(kw) : toupper(At(src, i + k - 1)) = toupper(kw[k])
  /\ ~isupper(toupper(At(src, i + Len(kw))))
\* a search that takes every word for the first keyword.
KwFind_first(src, i) == 1
KwFind(src, i) ==
  LET found == { index \in 1..Len(keyWordList) : KwMatches(src, i, Codes(keyWordList[index])) }
  IN IF found = {} THEN 0 ELSE CHOOSE index \in found : \A other \in found : index <= other

\* the string copy of lines 876-898; n is the local len.
RECURSIVE TokString(_, _, _, _)
TokString(src, i, dst, n) ==
  LET ch == At(src, i) IN
  IF ch = 0 THEN [err |-> ERROR_SYNTAX, i |-> i, dst |-> dst]
  ELSE IF ch = ST_STRING THEN [err |-> ERROR_NONE, i |-> i + 1, dst |-> Append(dst, ch)]
  ELSE LET esc == ch = Ord("\\") /\ At(src, i + 1) = ST_STRING
           d2  == IF esc THEN dst \o << ch, ST_STRING >> ELSE Append(dst, ch)
           i2  == IF esc THEN i + 2 ELSE i + 1
           n2  == IF esc THEN n + 2 ELSE n + 1
       IN IF n2 >= CODE_BUFF_SIZE - 3
            THEN [err |-> ERROR_PGOVER, i |-> i2, dst |-> d2]
            ELSE TokString(src, i2, d2, n2)

\* the comment copy of lines 900-914.
RECURSIVE TokComment(_, _, _, _)
TokComment(src, i, dst, n) ==
  IF n + 1 >= CODE_BUFF_SIZE - 2 THEN [err |-> ERROR_PGOVER, i |-> i, dst |-> dst]
  ELSE IF At(src, i + 1) = 0
         THEN [err |-> ERROR_NONE, i |-> i + 1, dst |-> Append(dst, At(src, i))]
         ELSE TokComment(src, i + 1, Append(dst, At(src, i)), n + 1)

RECURSIVE SkipSpace(_, _)
SkipSpace(src, i) ==
  IF At(src, i) # 0 /\ At(src, i) <= ASCII_SP THEN SkipSpace(src, i + 1) ELSE i

DropLast(q) == SubSeq(q, 1, Len(q) - 1)

\* the branch the loop body takes at the character c0 (ch in upper case,
\* cx the next character in upper case).
TokKind(c0, ch, cx) ==
  IF c0 = 0 THEN "eol"
  ELSE IF ch = Ord("?") THEN "print"
  ELSE IF ch = Ord("0") /\ cx = Ord("X") THEN "hex"
  ELSE IF isdigit(ch) THEN "dec"
  ELSE IF isupper(ch) THEN (IF isupper(cx) THEN "word" ELSE "var")
  ELSE IF ch = ST_STRING THEN "string"
  ELSE IF ch = ST_COMMENT THEN "comment"
  ELSE IF ch = ST_ARRAY /\ cx = Ord("[") THEN "var"
  ELSE IF IS_VALID_CHR(ch) THEN "chr"
  ELSE "bad"

\* lines 922-929: a sign after a value, a variable, a closing bracket or a
\* function is binary, and last_st becomes 0xff.
IsBinarySign_never(ch, last_st) == FALSE
IsBinarySign(ch, last_st) ==
  (ch = Ord("-") \/ ch = Ord("+"))
  /\ (last_st = Ord(")") \/ last_st = Ord("]") \/ last_st = ST_VAL \/ isupper(last_st)
      \/ last_st >= FUNC_START)

\* one turn of the loop at the character src[i] (ch in upper case, cx the
\* next character in upper case, len = dst - topptr).
RECURSIVE TokLoop(_)
TokBranch(t, i, len, ch, cx, kind) ==
  CASE kind = "full" -> TokErr(t, ERROR_PGOVER)
    [] kind = "bad" -> TokErr(t, ERROR_SYNTAX)
    [] kind = "eol" ->
         [len |-> IF len <= 1 THEN 0 ELSE len, dst |-> Append(t.dst, ST_EOL),
          err |-> ERROR_NONE, eol |-> TRUE]
    [] kind = "print" ->
         TokLoop([t EXCEPT !.i = i + 1, !.dst = Append(t.dst, ST_PRINT), !.last_st = ch])
    [] kind = "hex" ->
         IF isxdigit(At(t.src, i + 2))
           THEN LET put(r) == [t EXCEPT !.i = r.i,
                                        !.dst = t.dst \o set_dec_val(ST_VAL_HEX, r.v),
                                        !.last_st = ST_VAL]
                IN TokLoop(put(hex2val(t.src, i + 2)))
           ELSE TokLoop([t EXCEPT !.i = i + 2, !.last_st = ST_VAL])
    [] kind = "dec" ->
         LET sign == t.last_st = Ord("-") \/ t.last_st = Ord("+")
             base == IF sign THEN DropLast(t.dst) ELSE t.dst
             put(r) == [t EXCEPT !.i = r.i,
                                 !.dst = base \o set_dec_val(ST_VAL_DEC,
                                           IF t.last_st = Ord("-") THEN Wrap(0 - r.v) ELSE r.v),
                                 !.last_st = ST_VAL]
         IN IF t.last_st = Ord("-") /\ len = 1 THEN TokErr(t, ERROR_SYNTAX)
            ELSE TokLoop(put(dec2val(t.src, i)))
    [] kind = "var" ->
         TokLoop([t EXCEPT !.i = i + 1, !.dst = Append(t.dst, ch), !.last_st = ch])
    [] kind = "word" ->
         LET put(index) ==
               IF index = 0 THEN TokErr(t, ERROR_SYNTAX)
               ELSE TokLoop([t EXCEPT !.i = i + Len(keyWordList[index]),
                                      !.dst = Append(t.dst, TOKEN_START + index - 1),
                                      !.last_st = TOKEN_START + index - 1])
         IN put(KwFind(t.src, i))
    [] kind = "string" ->
         LET put(r) ==
               IF r.err # ERROR_NONE THEN TokErr([t EXCEPT !.dst = r.dst], r.err)
               ELSE TokLoop([t EXCEPT !.i = r.i, !.dst = r.dst, !.last_st = ST_STRING])
         IN put(TokString(t.src, i + 1, Append(t.dst, ST_STRING), len + 1))
    [] kind = "comment" ->
         IF cx = ST_COMMENT
           THEN TokLoop([t EXCEPT !.i = Len(t.src) + 1, !.last_st = ch])
           ELSE LET put(r) ==
                      IF r.err # ERROR_NONE THEN TokErr([t EXCEPT !.dst = r.dst], r.err)
                      ELSE TokLoop([t EXCEPT !.i = r.i, !.dst = r.dst, !.last_st = ch])
                IN put(TokComment(t.src, i, t.dst, len))
    [] kind = "chr" ->
         TokLoop([t EXCEPT !.i = i + 1, !.dst = Append(t.dst, ch),
                           !.last_st = IF IsBinarySign(ch, t.last_st) THEN 255 ELSE ch])

TokLoop(t) ==
  LET classify(i, len, ch, cx) ==
        TokBranch(t, i, len, ch, cx,
                  IF len > CODE_BUFF_SIZE - 2 THEN "full" ELSE TokKind(At(t.src, i), ch, cx))
      at(i) == classify(i, Len(t.dst) + 1, toupper(At(t.src, i)), toupper(At(t.src, i + 1)))
  IN at(SkipSpace(t.src, t.i))

convertInternalCode(src) == TokLoop([src |-> src, i |-> 1, dst |-> << >>, last_st |-> 0])


(***************************************************************************)
(* The machine: a record s of the globals of nano_basic_uno.cpp.           *)
(*   s.io      what the console and the board deliver while a handler      *)
(*             runs: io.key at interpreterMain's poll, io.wait inside a    *)
(*             wait loop (DELAY, PAUSE, INKEY), io.ext from the board      *)
(*             (tick, random, pins)                                        *)
(*   s.blocked a wait loop that never ends with this io                    *)
(*   s.used    the handler consulted io.wait or io.ext                     *)
(*   s.escape  a scan dereferenced a byte after the zero terminator of the *)
(*             program or after the EOL of the REPL line                   *)
(***************************************************************************)
NoKey == 0 - 1

InCode(p) == p >= CodeBase
Rd(s, p) == IF InCode(p) THEN s.internalcodeBuff[p - CodeBase] ELSE s.programArea[p]
Cur(s)   == Rd(s, s.executionPointer)
Adv(s, n) == [s EXCEPT !.executionPointer = @ + n]
SetErr(s, e) == [s EXCEPT !.errorCode = e]
Ret(s, v) == [s |-> s, v |-> v]

\* a reference to a variable: 0..25 is A..Z, VARIABLE_NUM + i is @[i].
GetVar(s, ref) == IF ref < VARIABLE_NUM THEN s.globalVariables[ref]
                  ELSE s.arrayValiables[ref - VARIABLE_NUM]
SetVar(s, ref, v) ==
  IF ref < VARIABLE_NUM THEN [s EXCEPT !.globalVariables[ref] = v]
  ELSE [s EXCEPT !.arrayValiables[ref - VARIABLE_NUM] = v]

(***************************************************************************)
(* C integer operators on nb_int_t.                                        *)
(***************************************************************************)
Abs(x) == IF x < 0 THEN 0 - x ELSE x
CDiv(a, b) == IF (a < 0) = (b < 0) THEN Abs(a) \div Abs(b) ELSE 0 - (Abs(a) \div Abs(b))
CMod(a, b) == a - b * CDiv(a, b)
RECURSIVE BitOp(_, _, _, _)
BitOp(op, a, b, n) ==
  IF n = 0 THEN 0
  ELSE LET x == a % 2
           y == b % 2
           z == IF op = "and" THEN x * y
                ELSE IF op = "or" THEN (IF x + y > 0 THEN 1 ELSE 0)
                ELSE (x + y) % 2
       IN z + 2 * BitOp(op, a \div 2, b \div 2, n - 1)
BitAnd(a, b) == S16(BitOp("and", U16(a), U16(b), INT_BITS))
BitOr(a, b)  == S16(BitOp("or", U16(a), U16(b), INT_BITS))
BitXor(a, b) == S16(BitOp("xor", U16(a), U16(b), INT_BITS))
\* shifts by 0..INT_BITS-1; a count outside that range is undefined in C and
\* is not given to these operators by the lines the model executes.
Shl(a, n) == Wrap(a * Pow2(n))
Shr(a, n) == a \div Pow2(n)
Bool(b) == IF b THEN 1 ELSE 0

(***************************************************************************)
(* get_dec_val, get_next_ptr on the machine's memory.                      *)
(***************************************************************************)
get_dec_val(s, ptr) ==
  LET c == Rd(s, ptr) IN
  IF isdigit(c) THEN [p |-> ptr + 1, v |-> c - Ord("0")]
  ELSE IF ~IS_ST_VAL(c) THEN [p |-> NULL, v |-> 0]
  ELSE IF c % (VAL_SIZE_MASK + 1) = 0 THEN [p |-> ptr + 2, v |-> S8(Rd(s, ptr + 1))]
  ELSE [p |-> ptr + 3, v |-> S8(Rd(s, ptr + 2)) * 256 + Rd(s, ptr + 1)]

get_next_ptr(s, ptr) ==
  IF IS_ST_VAL(Rd(s, ptr)) THEN ptr + 1 + GET_VAL_SIZE(Rd(s, ptr)) ELSE ptr + 1

isDelimiter(ch) ==
  ch = Ord(":") \/ ch = ST_EOL \/ ch = ST_ELSE \/ ch = ST_ELSEIF \/ ch = ST_ENDIF
  \/ ch = ST_COMMENT

checkDelimiter(s) ==
  IF s.errorCode = ERROR_NONE /\ ~isDelimiter(Cur(s)) THEN SetErr(s, ERROR_SYNTAX) ELSE s

checkST(s, ch) ==
  IF s.errorCode = ERROR_NONE
    THEN Adv(IF Cur(s) # ch THEN SetErr(s, ERROR_SYNTAX) ELSE s, 1)
    ELSE s

\* checkDivZero that reports the wrong error.
checkDivZero_wrongError(s, val) ==
  IF s.errorCode = ERROR_NONE /\ val = 0
    THEN [SetErr(s, ERROR_SYNTAX) EXCEPT !.divz = TRUE]
    ELSE [s EXCEPT !.divz = @ \/ val = 0]
\* divz notes that the divisor was 0.
checkDivZero(s, val) ==
  IF s.errorCode = ERROR_NONE /\ val = 0
    THEN [SetErr(s, ERROR_DIVZERO) EXCEPT !.divz = TRUE]
    ELSE [s EXCEPT !.divz = @ \/ val = 0]

(***************************************************************************)
(* executeBreak, checkBreakKey.  The key is what inputChar() returned:     *)
(* NoKey, CHR_BREAK or a character; the result v is checkBreakKey's.       *)
(***************************************************************************)
\* executeBreak that stores the pointer but not the line.
executeBreak_noLine(s) ==
  LET t == IF s.lineNumber # 0 THEN [s EXCEPT !.resumePointer = s.executionPointer] ELSE s
  IN [t EXCEPT !.errorCode = ERROR_BREAK]
executeBreak(s) ==
  LET t == IF s.lineNumber # 0
             THEN [s EXCEPT !.resumePointer = s.executionPointer,
                            !.resumeLineNumber = s.lineNumber]
             ELSE s
  IN [t EXCEPT !.errorCode = ERROR_BREAK]

\* polled remembers the machine at a poll that received 0x03 in Run mode,
\* and the pointer of the break before it when the run had been resumed
\* after two consecutive breaks (follow = 3, was).
NotePoll(s) ==
  IF s.lineNumber = 0 THEN s
  ELSE [s EXCEPT !.polled = [age |-> 0, ptr |-> s.executionPointer, line |-> s.lineNumber,
                             follow |-> IF s.polled.follow = 2 THEN 3 ELSE 0,
                             was |-> s.polled.ptr,
                             globalVariables |-> s.globalVariables,
                             arrayValiables |-> s.arrayValiables,
                             stacks |-> s.stacks, stackPointer |-> s.stackPointer]]
\* a poll that takes 0x03 for any other key.
checkBreakKey_deaf(s, key) ==
  IF key < 0 THEN Ret(s, 0) ELSE Ret(s, key)
checkBreakKey(s, key) ==
  IF key < 0 THEN Ret(s, 0)
  ELSE IF key = CHR_BREAK THEN Ret(executeBreak(NotePoll(s)), 0 - 1)
  ELSE Ret(s, key)

\* inkey_func: one poll result decides the wait; with no key the wait ends
\* by timeout when val > 0 and never when val = 0.
inkey_func(s, val) ==
  LET r == checkBreakKey(s, s.io.wait)
      u == [r.s EXCEPT !.used = TRUE]
  IN IF r.v # 0 THEN Ret(u, r.v)
     ELSE IF val > 0 THEN Ret(u, 0 - 1)
     ELSE Ret([u EXCEPT !.blocked = TRUE], 0 - 1)

(***************************************************************************)
(* The expression evaluator: each level returns [s, v].  The evaluator and *)
(* the statement handlers are entered through Call, the one recursive      *)
(* operator of the executor: Eval(s) is a call of expr, Exec(s, ch) the    *)
(* execution of the statement that begins with the byte ch.                *)
(***************************************************************************)
RECURSIVE Call(_, _, _)
Eval(s) == Call("expr", s, 0)
Exec(s, ch) == Call("statement", s, ch)

\* getArrayReference without the test for a negative index.
getArrayReference_noLowerBound(s) ==
  LET close(v, s2) ==
        IF s2.errorCode # ERROR_NONE THEN Ret(s2, NULL) ELSE Ret(s2, VARIABLE_NUM + v)
      range(v, t) ==
        IF v >= ARRAY_INDEX_NUM THEN Ret(SetErr(t, ERROR_ARRAY), NULL)
        ELSE close(v, checkST(t, Ord("]")))
      index(r) ==
        IF r.s.errorCode # ERROR_NONE THEN Ret(r.s, NULL)
        ELSE range(r.v, [r.s EXCEPT !.idx = Append(@, r.v)])
      open(s1) == IF s1.errorCode # ERROR_NONE THEN Ret(s1, NULL) ELSE index(Eval(s1))
  IN open(checkST(s, Ord("[")))
\* getArrayReference: [s, v] with v the reference, NULL for the null
\* pointer; idx notes the index.
getArrayReference(s) ==
  LET close(v, s2) ==
        IF s2.errorCode # ERROR_NONE THEN Ret(s2, NULL) ELSE Ret(s2, VARIABLE_NUM + v)
      range(v, t) ==
        IF v < 0 \/ v >= ARRAY_INDEX_NUM THEN Ret(SetErr(t, ERROR_ARRAY), NULL)
        ELSE close(v, checkST(t, Ord("]")))
      index(r) ==
        IF r.s.errorCode # ERROR_NONE THEN Ret(r.s, NULL)
        ELSE range(r.v, [r.s EXCEPT !.idx = Append(@, r.v)])
      open(s1) == IF s1.errorCode # ERROR_NONE THEN Ret(s1, NULL) ELSE index(Eval(s1))
  IN open(checkST(s, Ord("[")))

calcValueFunc(s) ==
  LET close(r, s2) == IF s2.errorCode # ERROR_NONE THEN Ret(s2, 0 - 1) ELSE Ret(s2, r.v)
      arg(r) == close(r, checkST(r.s, Ord(")")))
      open(s1) == IF s1.errorCode # ERROR_NONE THEN Ret(s1, 0 - 1) ELSE arg(Eval(s1))
  IN open(checkST(s, Ord("(")))

\* a value read from the board (bios_rand, bios_readGpio, bios_readAdc,
\* bios_getSystemTick): io.ext.
External(s) == Ret([s EXCEPT !.used = TRUE], s.io.ext)

\* calcValue's switch (ch) on the function codes; r is calcValueFunc's result.
calcValueSwitch(ch, r) ==
  IF r.s.errorCode # ERROR_NONE THEN Ret(r.s, 0 - 1)
  ELSE IF ch = FUNC_RND THEN External(r.s)
  ELSE IF ch = FUNC_ABS THEN Ret(r.s, Wrap(Abs(r.v)))
  ELSE IF ch = FUNC_INKEY THEN inkey_func(r.s, IF r.v < 0 THEN 0 ELSE r.v)
  ELSE LET pin(e) == IF e.v < 0 THEN Ret(SetErr(e.s, ERROR_PARA), e.v) ELSE e
       IN pin(External(r.s))

RECURSIVE calcValue(_)
\* calcValue at the byte ch, with d what get_dec_val found there and s1 the
\* machine after ch = *executionPointer++.
calcValueAt(s, s1, d, ch) ==
  IF d.p # NULL THEN Ret([s EXCEPT !.executionPointer = d.p], d.v)
  ELSE IF isupper(ch) THEN Ret(s1, s.globalVariables[ch - Ord("A")])
  ELSE IF ch = ST_ARRAY THEN
    LET ref(r) == IF r.v = NULL THEN Ret(r.s, 0 - 1) ELSE Ret(r.s, GetVar(r.s, r.v))
    IN ref(getArrayReference(s1))
  ELSE IF ch = Ord("(") THEN
    LET close(r, s2) == IF s2.errorCode # ERROR_NONE THEN Ret(s2, 0 - 1) ELSE Ret(s2, r.v)
        inner(r) == close(r, checkST(r.s, Ord(")")))
    IN inner(Eval(s1))
  ELSE IF ch = Ord("-") \/ ch = Ord("!") \/ ch = Ord("~") THEN
    LET unary(r) == Ret(r.s, IF ch = Ord("-") THEN Wrap(0 - r.v)
                             ELSE IF ch = Ord("!") THEN Bool(r.v = 0)
                             ELSE Wrap(0 - r.v - 1))
    IN unary(calcValue(s1))
  ELSE IF ch = FUNC_RND \/ ch = FUNC_ABS \/ ch = FUNC_INP \/ ch = FUNC_ADC
          \/ ch = FUNC_INKEY THEN calcValueSwitch(ch, calcValueFunc(s1))
  ELSE IF ch = SVAR_TICK THEN External(s1)
  ELSE Ret(SetErr(s1, ERROR_SYNTAX), 0 - 1)

calcValue(s0) ==
  LET enter(s) ==
        IF s.exprDepth > EXPR_DEPTH_MAX THEN Ret(SetErr(s, ERROR_TOODEEP), 0 - 1)
        ELSE calcValueAt(s, Adv(s, 1), get_dec_val(s, s.executionPointer), Cur(s))
  IN enter([s0 EXCEPT !.exprDepth = @ + 1])

\* a level of the evaluator, from an operand on: op is the operator that
\* was read before the operand (0 before the first operand) and acc the
\* value so far; after the operand the level's loop reads the next byte.
RECURSIVE expr4thLoop(_, _, _)
expr4thLoop(s, acc, op) ==
  LET next(s2, val) ==
        IF Cur(s2) = Ord("*") \/ Cur(s2) = Ord("/") \/ Cur(s2) = Ord("%")
          THEN expr4thLoop(Adv(s2, 1), val, Cur(s2))
          ELSE Ret(s2, val)
      apply(r, s2) ==
        IF s2.errorCode # ERROR_NONE THEN Ret(s2, 0 - 1)
        ELSE next(s2, IF op = 0 THEN r.v
                      ELSE IF op = Ord("*") THEN Wrap(acc * r.v)
                      ELSE IF op = Ord("/") THEN Wrap(CDiv(acc, r.v))
                      ELSE Wrap(CMod(acc, r.v)))
      operand(r) ==
        apply(r, IF op = Ord("/") \/ op = Ord("%") THEN checkDivZero(r.s, r.v) ELSE r.s)
  IN operand(calcValue(s))

expr4th(s) == expr4thLoop(s, 0, 0)

RECURSIVE expr3ndLoop(_, _, _)
expr3ndLoop(s, acc, op) ==
  LET next(s2, val) ==
        IF Cur(s2) = Ord("+") \/ Cur(s2) = Ord("-")
          THEN expr3ndLoop(Adv(s2, 1), val, Cur(s2))
          ELSE Ret(s2, val)
      operand(r) ==
        IF r.s.errorCode # ERROR_NONE THEN Ret(r.s, 0 - 1)
        ELSE next(r.s, IF op = 0 THEN r.v
                       ELSE IF op = Ord("+") THEN Wrap(acc + r.v)
                       ELSE Wrap(acc - r.v))
  IN operand(expr4th(s))

expr3nd(s) == expr3ndLoop(s, 0, 0)

\* the comparison or shift selected by ch and the byte after it: its name
\* and the number of bytes the operator takes.
RelOp(ch, ch2) ==
  IF ch = Ord(">") THEN
    (IF ch2 = Ord("=") THEN [op |-> "ge", n |-> 2]
     ELSE IF ch2 = Ord(">") THEN [op |-> "shr", n |-> 2]
     ELSE [op |-> "gt", n |-> 1])
  ELSE IF ch = Ord("<") THEN
    (IF ch2 = Ord("=") THEN [op |-> "le", n |-> 2]
     ELSE IF ch2 = Ord(">") THEN [op |-> "ne", n |-> 2]
     ELSE IF ch2 = Ord("<") THEN [op |-> "shl", n |-> 2]
     ELSE [op |-> "lt", n |-> 1])
  ELSE IF ch = Ord("=") THEN
    (IF ch2 = Ord("=") THEN [op |-> "eq", n |-> 2] ELSE [op |-> "eq", n |-> 1])
  ELSE IF ch = Ord("!") /\ ch2 = Ord("=") THEN [op |-> "ne", n |-> 2]
  ELSE [op |-> "none", n |-> 0]

RelVal(op, acc, tmp) ==
  CASE op = "ge" -> Bool(acc >= tmp)
    [] op = "gt" -> Bool(acc > tmp)
    [] op = "le" -> Bool(acc <= tmp)
    [] op = "lt" -> Bool(acc < tmp)
    [] op = "eq" -> Bool(acc = tmp)
    [] op = "ne" -> Bool(acc # tmp)
    [] op = "shl" -> Shl(acc, tmp)
    [] op = "shr" -> Shr(acc, tmp)

RECURSIVE expr2ndLoop(_, _, _)
expr2ndLoop(s, acc, op) ==
  LET operator(s2, val, o) ==
        IF o.op = "none" THEN Ret(s2, val) ELSE expr2ndLoop(Adv(s2, o.n), val, o.op)
      next(s2, val) == operator(s2, val, RelOp(Cur(s2), Rd(s2, s2.executionPointer + 1)))
      operand(r) ==
        IF r.s.errorCode # ERROR_NONE THEN Ret(r.s, 0 - 1)
        ELSE next(r.s, IF op = "none" THEN r.v ELSE RelVal(op, acc, r.v))
  IN operand(expr3nd(s))

expr2nd(s) == expr2ndLoop(s, 0, "none")

\* the loop of expr after an operand; && and || are C's operators: they do
\* not call expr2nd() when the left side decides the result.
RECURSIVE exprLoop(_, _, _), exprNext(_, _)
exprNext(s, val) ==
  LET ch == Cur(s)
      logical == (ch = Ord("&") \/ ch = Ord("|")) /\ Rd(s, s.executionPointer + 1) = ch
  IN IF logical /\ ch = Ord("&") /\ val = 0 THEN exprNext(Adv(s, 2), 0)
     ELSE IF logical /\ ch = Ord("|") /\ val # 0 THEN exprNext(Adv(s, 2), 1)
     ELSE IF logical THEN exprLoop(Adv(s, 2), val, IF ch = Ord("&") THEN "&&" ELSE "||")
     ELSE IF ch = Ord("&") THEN exprLoop(Adv(s, 1), val, "&")
     ELSE IF ch = Ord("|") THEN exprLoop(Adv(s, 1), val, "|")
     ELSE IF ch = Ord("^") THEN exprLoop(Adv(s, 1), val, "^")
     ELSE Ret(s, val)

exprLoop(s, acc, op) ==
  LET operand(r) ==
        IF r.s.errorCode # ERROR_NONE THEN Ret(r.s, 0 - 1)
        ELSE exprNext(r.s, CASE op = "none" -> r.v
                             [] op = "&&" -> Bool(r.v # 0)
                             [] op = "||" -> Bool(r.v # 0)
                             [] op = "&" -> BitAnd(acc, r.v)
                             [] op = "|" -> BitOr(acc, r.v)
                             [] op = "^" -> BitXor(acc, r.v))
  IN operand(expr2nd(s))

expr(s) == exprLoop(s, 0, "none")

(***************************************************************************)
(* The forward scans.  Each returns, with its result, last: the address    *)
(* after the last byte it dereferenced.                                    *)
(***************************************************************************)
\* the address of the zero length byte that ends the stored program.
RECURSIVE TermFrom(_, _)
TermFrom(s, p) ==
  IF p >= PROGRAM_AREA_SIZE THEN PROGRAM_AREA_SIZE
  ELSE IF s.programArea[p] = ST_EOL THEN p
  ELSE TermFrom(s, p + s.programArea[p] + 1)
TermAddr(s) == TermFrom(s, 0)

\* the last address a scan that started at start may dereference: the
\* program's terminator, or the EOL of the line in internalcodeBuff.
ScanLimit(s, start) ==
  IF InCode(start) THEN CodeBase + s.internalcodeBuff[0] ELSE TermAddr(s)

Escapes(s, start, last) == last - 1 > ScanLimit(s, start)
NoteScan(s, start, last) ==
  IF Escapes(s, start, last) THEN [s EXCEPT !.escape = TRUE] ELSE s

\* findST's comment case: while (*ptr++ != ST_EOL);
RECURSIVE PastEol(_, _)
PastEol(s, ptr) == IF Rd(s, ptr) = ST_EOL THEN ptr + 1 ELSE PastEol(s, ptr + 1)

\* findST's string case: do { ch = *ptr++; if (ch == '\\') ptr++; }
\* while (ch != ST_STRING && ch != ST_EOL);
RECURSIVE PastString(_, _)
PastString(s, ptr) ==
  LET ch == Rd(s, ptr)
      p2 == IF ch = Ord("\\") THEN ptr + 2 ELSE ptr + 1
  IN IF ch = ST_STRING \/ ch = ST_EOL THEN p2 ELSE PastString(s, p2)

Member(ch, st_list) == \E k \in 1..Len(st_list) : st_list[k] = ch

\* findST from ptr with the local line count num: [ptr, num, last]; ptr is
\* NULL when nothing was found, num the line of the match.
ScanKind(st_list, ch, count_if) ==
  IF ch = ST_EOL THEN "eol"
  ELSE IF ch = ST_COMMENT THEN "comment"
  ELSE IF ch = ST_STRING THEN "string"
  ELSE IF ch = ST_IF THEN "if"
  ELSE IF ch = ST_ENDIF /\ count_if > 0 THEN "endif"
  ELSE IF IS_ST_VAL(ch) THEN "value"
  ELSE IF count_if = 0 /\ Member(ch, st_list) THEN "found"
  ELSE "other"

RECURSIVE findSTLoop(_, _, _, _, _)
findSTLoop(s, st_list, ptr, num, count_if) ==
  LET p1 == ptr + 1
      branch(ch, kind) ==
        CASE kind = "eol" ->
               IF num = 0 THEN [ptr |-> NULL, num |-> num, last |-> p1]
               ELSE IF Rd(s, p1) = ST_EOL THEN [ptr |-> NULL, num |-> num, last |-> p1 + 1]
               ELSE findSTLoop(s, st_list, p1 + 1, num + 1, count_if)
          [] kind = "comment" -> findSTLoop(s, st_list, PastEol(s, p1), num, count_if)
          [] kind = "string" -> findSTLoop(s, st_list, PastString(s, p1), num, count_if)
          [] kind = "if" -> findSTLoop(s, st_list, p1, num, count_if + 1)
          [] kind = "endif" -> findSTLoop(s, st_list, p1, num, count_if - 1)
          [] kind = "value" -> findSTLoop(s, st_list, p1 + GET_VAL_SIZE(ch), num, count_if)
          [] kind = "found" -> [ptr |-> p1, num |-> num, last |-> p1]
          [] kind = "other" -> findSTLoop(s, st_list, p1, num, count_if)
  IN branch(Rd(s, ptr), ScanKind(st_list, Rd(s, ptr), count_if))

\* findST(st_list, &lnum): scans from executionPointer; a match stores its
\* line in the global lineNumber.  Result [s, v] with v the pointer.
findST(s, st_list, lnum) ==
  LET result(f, s1) == IF f.ptr = NULL THEN Ret(s1, NULL)
                       ELSE Ret([s1 EXCEPT !.lineNumber = f.num], f.ptr)
      scanned(f) == result(f, NoteScan(s, s.executionPointer, f.last))
  IN scanned(findSTLoop(s, st_list, s.executionPointer, lnum, 0))

st_list_next == << ST_NEXT, ST_FOR >>
st_list_loop_noWhile == << ST_LOOP, ST_DO >>
st_list_loop == << ST_LOOP, ST_WHILE, ST_DO >>

\* the loop of findNextLoop: num is lineNumber at entry; s2 is the machine
\* after the look at the byte that follows a LOOP.
RECURSIVE findNextLoopCount(_, _, _, _)
findNextLoopCount(s, st_list, ptr, count) ==
  LET num == s.lineNumber
      matched(r, ch, s2) ==
        IF ch # st_list[1] THEN findNextLoopCount(r.s, st_list, r.v, count + 1)
        ELSE LET p2 == IF ch = ST_LOOP /\ Rd(r.s, r.v) = ST_WHILE THEN r.v + 1 ELSE r.v
             IN IF count = 1 THEN Ret([s2 EXCEPT !.lineNumber = num], p2)
                ELSE findNextLoopCount(s2, st_list, p2, count - 1)
      found(r) ==
        IF r.v = NULL THEN Ret(r.s, NULL)
        ELSE matched(r, Rd(r.s, r.v - 1),
                     IF Rd(r.s, r.v - 1) = ST_LOOP THEN NoteScan(r.s, ptr, r.v + 1) ELSE r.s)
  IN found(findST([s EXCEPT !.executionPointer = ptr], st_list, s.lineNumber))

findNextLoop(s, ptr, ch) ==
  findNextLoopCount(s, IF ch = ST_LOOP THEN st_list_loop ELSE st_list_next, ptr, 1)

RECURSIVE skipLoop(_, _)
skipLoop(s, ptr) == IF isDelimiter(Rd(s, ptr)) THEN ptr ELSE skipLoop(s, ptr + 1)
\* skipToDelimiter(ptr): [s, v] with the scan noted in s.
skipToDelimiter(s, ptr) ==
  LET stop(p) == Ret(NoteScan(s, ptr, p + 1), p) IN stop(skipLoop(s, ptr))

\* label2exeptr(val): v is NULL, or the pointer after the label, with
\* executionPointer at the line's length byte and lineNumber its line.
RECURSIVE ToEol(_, _)
ToEol(s, ptr) == IF Rd(s, ptr) = ST_EOL THEN ptr ELSE ToEol(s, get_next_ptr(s, ptr))

RECURSIVE label2exeptrLoop(_, _, _, _)
label2exeptrLoop(s, val, ptr, lnum) ==
  LET label(d) ==
        IF d.p # NULL /\ d.v = val
          THEN Ret([NoteScan(s, 0, d.p) EXCEPT !.executionPointer = ptr,
                                               !.lineNumber = lnum], d.p)
          ELSE label2exeptrLoop(s, val,
                                ToEol(s, IF d.p # NULL THEN d.p ELSE ptr + 1) + 1, lnum + 1)
  IN IF Rd(s, ptr) = ST_EOL THEN Ret(NoteScan(s, 0, ptr + 1), NULL)
     ELSE label(get_dec_val(s, ptr + 1))

\* label2exeptr that looks at the first line only.
label2exeptr_firstLine(s, val) ==
  LET d == get_dec_val(s, 1)
  IN IF Rd(s, 0) # ST_EOL /\ d.p # NULL /\ d.v = val
       THEN Ret([NoteScan(s, 0, d.p) EXCEPT !.executionPointer = 0, !.lineNumber = 1], d.p)
       ELSE Ret(NoteScan(s, 0, 1), NULL)
label2exeptr(s, val) == label2exeptrLoop(s, val, 0, 1)

(***************************************************************************)
(* The control stack.                                                      *)
(***************************************************************************)
\* pushStack with the bound off by one.
pushStack_offByOne(s, st) ==
  IF s.stackPointer > STACK_NUM THEN Ret(SetErr(s, ERROR_STACK), NULL)
  ELSE Ret([s EXCEPT !.stackPointer = @ + 1], s.stackPointer)
pushStack(s, st) ==
  IF s.stackPointer >= STACK_NUM THEN Ret(SetErr(s, ERROR_STACK), NULL)
  ELSE Ret([s EXCEPT !.stacks[s.stackPointer].type = st,
                     !.stacks[s.stackPointer].returnPointer = s.executionPointer,
                     !.stacks[s.stackPointer].returnLineNumber = s.lineNumber,
                     !.stackPointer = @ + 1],
           s.stackPointer)

\* popStack(st): v is the index of the popped frame, or NULL; the frame is
\* popped also when its type is not st.  popStack_anyType is popStack
\* without the check of the frame's type.
popStack_anyType(s, st) ==
  IF s.stackPointer = 0 THEN Ret(s, NULL)
  ELSE Ret([s EXCEPT !.stackPointer = @ - 1], s.stackPointer - 1)
popStack(s, st) ==
  IF s.stackPointer = 0 THEN Ret(s, NULL)
  ELSE LET s1 == [s EXCEPT !.stackPointer = @ - 1] IN
       IF s1.stacks[s1.stackPointer].type # st THEN Ret(s1, NULL)
       ELSE Ret(s1, s1.stackPointer)

\* programInit without the reset of the control stack.
programInit_keepsStack(s) ==
  [s EXCEPT !.resumePointer = NULL, !.resumeLineNumber = 0, !.dataReadPointer = NULL]
programInit(s) ==
  [s EXCEPT !.stackPointer = 0, !.resumePointer = NULL, !.resumeLineNumber = 0,
            !.dataReadPointer = NULL]

initializeValiables(s) ==
  [programInit(s) EXCEPT !.globalVariables = [i \in 0..(VARIABLE_NUM - 1) |-> 0],
                         !.arrayValiables = [i \in 0..(ARRAY_INDEX_NUM - 1) |-> 0]]

programNew(s) == [s EXCEPT !.progLength = 0, !.programArea[0] = ST_EOL]

programRun_keepsVariables(s) ==
  [programInit(s) EXCEPT !.errorCode = ERROR_NONE, !.lineNumber = 1,
                         !.executionPointer = 0, !.returnRequest = REQUEST_GOTO]
programRun(s) ==
  [initializeValiables(s) EXCEPT !.errorCode = ERROR_NONE, !.lineNumber = 1,
                                 !.executionPointer = 0, !.returnRequest = REQUEST_GOTO]

getParameterPointer(s) ==
  LET ch == Cur(s)
      s1 == Adv(s, 1)
  IN IF ch = ST_ARRAY THEN getArrayReference(s1)
     ELSE IF isupper(ch) THEN Ret(s1, ch - Ord("A"))
     ELSE Ret(SetErr(s1, ERROR_SYNTAX), NULL)

(***************************************************************************)
(* The statement handlers.  Each takes the machine with executionPointer   *)
(* after the statement's opcode and returns the machine it leaves.         *)
(***************************************************************************)
Top(s) == s.stacks[s.stackPointer - 1]

str2val(str) ==
  LET sign(flag, val) == IF flag THEN Wrap(0 - val) ELSE val
      digits(c, flag, j) ==
        sign(flag, IF c = 0 THEN 0
                   ELSE IF At(str, j) = Ord("0") /\ toupper(At(str, j + 1)) = Ord("X")
                     THEN hex2val(str, j + 2).v
                     ELSE dec2val(str, j).v)
      minus(i, c) == digits(c, c = Ord("-"), IF c = Ord("-") THEN i + 1 ELSE i)
      blanks(i) == minus(i, At(str, i))
  IN blanks(SkipSpace(str, 1))

\* INPUT: the typed line is io.wait: NoKey (nothing typed yet), CHR_BREAK,
\* or the one character of the line.
proc_input(s) ==
  LET read(pvar, u) ==
        IF u.io.wait = NoKey THEN [u EXCEPT !.blocked = TRUE]
        ELSE IF u.io.wait = CHR_BREAK THEN executeBreak(u)
        ELSE SetVar(u, pvar, str2val(<< u.io.wait >>))
      end(pvar, s1) ==
        IF s1.errorCode # ERROR_NONE THEN s1 ELSE read(pvar, [s1 EXCEPT !.used = TRUE])
      param(r) == IF r.v = NULL THEN r.s ELSE end(r.v, checkDelimiter(r.s))
  IN param(getParameterPointer(s))

goto_sub(s) ==
  LET jump(s1, l) ==
        IF l.v = NULL THEN Ret(SetErr(l.s, ERROR_LABEL), NULL)
        ELSE Ret([l.s EXCEPT !.returnRequest = REQUEST_GOTO], s1.executionPointer)
      end(val, s1) ==
        IF s1.errorCode # ERROR_NONE THEN Ret(s1, NULL) ELSE jump(s1, label2exeptr(s1, val))
      label(r) == end(r.v, checkDelimiter(r.s))
  IN label(Eval(s))

proc_goto(s) == goto_sub(s).s

proc_gosub(s) ==
  LET undo(s1) == IF s1.errorCode # ERROR_NONE THEN [s1 EXCEPT !.stackPointer = @ - 1]
                  ELSE s1
      jump(p, g) == undo([g.s EXCEPT !.stacks[p.v].returnPointer = g.v])
      frame(p) == IF p.v = NULL THEN p.s ELSE jump(p, goto_sub(p.s))
  IN frame(pushStack(s, ST_GOSUB))

\* returnLoop that leaves lineNumber where RETURN stands.
RECURSIVE returnLoop_keepsLine(_)
returnLoop_keepsLine(s) ==
  LET pop(s1, f) ==
        IF f.type = ST_GOSUB THEN [s1 EXCEPT !.executionPointer = f.returnPointer]
        ELSE returnLoop_keepsLine(s1)
  IN IF s.stackPointer = 0 THEN SetErr(s, ERROR_UXRETURN)
     ELSE pop([s EXCEPT !.stackPointer = @ - 1], s.stacks[s.stackPointer - 1])
RECURSIVE returnLoop(_)
returnLoop(s) ==
  LET pop(s1, f) ==
        IF f.type = ST_GOSUB
          THEN [s1 EXCEPT !.executionPointer = f.returnPointer,
                          !.lineNumber = f.returnLineNumber]
          ELSE returnLoop(s1)
  IN IF s.stackPointer = 0 THEN SetErr(s, ERROR_UXRETURN)
     ELSE pop([s EXCEPT !.stackPointer = @ - 1], s.stacks[s.stackPointer - 1])

proc_return(s) ==
  LET end(s1) == IF s1.errorCode # ERROR_NONE THEN s1 ELSE returnLoop(s1)
  IN end(checkDelimiter(s))

proc_for(s) ==
  LET frame(pvar, from, to, st, p) ==
        IF p.v = NULL THEN p.s
        ELSE [SetVar(p.s, pvar, from) EXCEPT !.stacks[p.v].pvar = pvar,
                                             !.stacks[p.v].limit = to,
                                             !.stacks[p.v].step = st]
      step(pvar, from, to, st) ==
        IF st.s.errorCode # ERROR_NONE THEN st.s
        ELSE frame(pvar, from, to, st.v, pushStack(st.s, ST_FOR))
      limit(pvar, from, to) ==
        IF to.s.errorCode # ERROR_NONE THEN to.s
        ELSE step(pvar, from, to.v,
                  IF Cur(to.s) = ST_STEP THEN Eval(Adv(to.s, 1)) ELSE Ret(to.s, 1))
      word(pvar, from, s2) ==
        IF s2.errorCode # ERROR_NONE THEN s2 ELSE limit(pvar, from, Eval(s2))
      start(pvar, from) == word(pvar, from.v, checkST(from.s, ST_TO))
      equals(pvar, s1) == IF s1.errorCode # ERROR_NONE THEN s1 ELSE start(pvar, Eval(s1))
      param(r) == IF r.v = NULL THEN r.s ELSE equals(r.v, checkST(r.s, Ord("=")))
  IN param(getParameterPointer(s))

\* proc_next that compares with the limit before it adds the step.
proc_next_early(s) ==
  LET count(t, f, v2) ==
        IF f.limit = GetVar(t, f.pvar) THEN t
        ELSE IF (f.step > 0 /\ f.limit <= GetVar(t, f.pvar) + 1)
                \/ (f.step <= 0 /\ f.limit >= GetVar(t, f.pvar) - 1)
          THEN SetVar(t, f.pvar, v2)
        ELSE [SetVar(t, f.pvar, v2) EXCEPT !.stackPointer = @ + 1,
                                           !.executionPointer = f.returnPointer,
                                           !.lineNumber = f.returnLineNumber]
      frame(t, f) == count(t, f, Wrap(GetVar(t, f.pvar) + f.step))
      pop(p) == IF p.v = NULL THEN SetErr(p.s, ERROR_UXNEXT) ELSE frame(p.s, p.s.stacks[p.v])
      end(s1) == IF s1.errorCode # ERROR_NONE THEN s1 ELSE pop(popStack(s1, ST_FOR))
  IN end(checkDelimiter(s))
proc_next(s) ==
  LET count(t, f, v2) ==
        IF f.limit = GetVar(t, f.pvar) THEN t
        ELSE IF (f.step > 0 /\ f.limit < v2) \/ (f.step <= 0 /\ f.limit > v2)
          THEN SetVar(t, f.pvar, v2)
        ELSE [SetVar(t, f.pvar, v2) EXCEPT !.stackPointer = @ + 1,
                                           !.executionPointer = f.returnPointer,
                                           !.lineNumber = f.returnLineNumber]
      frame(t, f) == count(t, f, Wrap(GetVar(t, f.pvar) + f.step))
      pop(p) == IF p.v = NULL THEN SetErr(p.s, ERROR_UXNEXT) ELSE frame(p.s, p.s.stacks[p.v])
      end(s1) == IF s1.errorCode # ERROR_NONE THEN s1 ELSE pop(popStack(s1, ST_FOR))
  IN end(checkDelimiter(s))

proc_do(s) ==
  LET frame(s1, p) ==
        IF p.v = NULL THEN p.s
        ELSE [p.s EXCEPT !.stacks[p.v].returnPointer = s1.executionPointer - 1]
      end(s1) == IF s1.errorCode # ERROR_NONE THEN s1 ELSE frame(s1, pushStack(s1, ST_DO))
  IN end(checkDelimiter(s))

proc_loop(s) ==
  LET back(f, again, s1) ==
        IF s1.errorCode # ERROR_NONE \/ ~again THEN s1
        ELSE [s1 EXCEPT !.executionPointer = f.returnPointer,
                        !.lineNumber = f.returnLineNumber]
      while(f, r) == back(f, r.v # 0, checkDelimiter(r.s))
      frame(t, f) == IF Cur(t) = ST_WHILE THEN while(f, Eval(Adv(t, 1)))
                     ELSE back(f, TRUE, checkDelimiter(t))
      pop(p) == IF p.v = NULL THEN SetErr(p.s, ERROR_UXLOOP) ELSE frame(p.s, p.s.stacks[p.v])
  IN pop(popStack(s, ST_DO))

\* the jump of WHILE (condition false) and EXIT to the delimiter after the
\* loop's terminator f.v; drop is the number of frames EXIT discards.
leaveLoop(f, drop) ==
  LET land(k) == [k.s EXCEPT !.stackPointer = @ - drop, !.executionPointer = k.v]
  IN land(skipToDelimiter(f.s, f.v))

proc_while(s) ==
  LET frame(p) == IF p.v = NULL THEN p.s
                  ELSE [p.s EXCEPT !.stacks[p.v].returnPointer = s.executionPointer - 1]
      skip(f) == IF f.v = NULL THEN SetErr(f.s, ERROR_NOLOOP) ELSE leaveLoop(f, 0)
      end(val, s1) ==
        IF s1.errorCode # ERROR_NONE THEN s1
        ELSE IF val # 0 THEN frame(pushStack(s1, ST_DO))
        ELSE skip(findNextLoop(s1, s.executionPointer, ST_LOOP))
      cond(r) == end(r.v, checkDelimiter(r.s))
  IN cond(Eval(s))

proc_exit(s) ==
  LET out(f) == IF f.v = NULL THEN SetErr(f.s, ERROR_UXEXIT) ELSE leaveLoop(f, 1)
      end(s1) ==
        IF s1.errorCode # ERROR_NONE THEN s1
        ELSE IF s1.stackPointer # 0 /\ Top(s1).type \in {ST_DO, ST_FOR}
          THEN out(findNextLoop(s1, s1.executionPointer,
                                IF Top(s1).type = ST_DO THEN ST_LOOP ELSE ST_NEXT))
        ELSE SetErr(s1, ERROR_UXEXIT)
  IN end(checkDelimiter(s))

proc_continue(s) ==
  LET next(f) == IF f.v = NULL THEN SetErr(f.s, ERROR_UXCONTINUE) ELSE f.s
      end(s1) ==
        IF s1.errorCode # ERROR_NONE THEN s1
        ELSE IF s1.stackPointer = 0 THEN SetErr(s1, ERROR_UXCONTINUE)
        ELSE IF Top(s1).type = ST_DO
          THEN [s1 EXCEPT !.stackPointer = @ - 1,
                          !.executionPointer = Top(s1).returnPointer,
                          !.lineNumber = Top(s1).returnLineNumber]
        ELSE IF Top(s1).type = ST_FOR THEN next(findNextLoop(s1, s1.executionPointer, ST_NEXT))
        ELSE SetErr(s1, ERROR_UXCONTINUE)
  IN end(checkDelimiter(s))

st_list_if    == << ST_ENDIF, ST_ELSE, ST_ELSEIF >>
st_list_endif == << ST_ENDIF >>
st_list_data  == << ST_DATA >>

RECURSIVE proc_if(_)
proc_if(s) ==
  LET branch(s2, ch) ==
        IF ch = ST_ELSEIF THEN proc_if(s2)
        ELSE IF ch = ST_ELSE /\ IS_VAL(Cur(s2)) THEN proc_goto(s2)
        ELSE s2
      skip(f) == IF f.v = NULL THEN SetErr(f.s, ERROR_NOENDIF)
                 ELSE branch([f.s EXCEPT !.executionPointer = f.v], Rd(f.s, f.v - 1))
      then(val, s1) ==
        IF s1.errorCode # ERROR_NONE THEN s1
        ELSE IF val # 0 THEN (IF IS_VAL(Cur(s1)) THEN proc_goto(s1) ELSE s1)
        ELSE skip(findST(s1, st_list_if, s1.lineNumber))
      cond(r) == then(r.v, checkST(r.s, ST_THEN))
  IN cond(Eval(s))

proc_else(s) ==
  LET skip(f) == IF f.v = NULL THEN SetErr(f.s, ERROR_NOENDIF)
                 ELSE [f.s EXCEPT !.executionPointer = f.v]
  IN skip(findST(s, st_list_endif, s.lineNumber))

proc_elseif(s) == proc_else(s)
proc_endif(s) == checkDelimiter(s)

proc_run(s) ==
  LET s1 == checkDelimiter(s) IN
  IF s1.errorCode # ERROR_NONE THEN s1 ELSE programRun(s1)

proc_resume(s) ==
  LET s1 == checkDelimiter(s) IN
  IF s1.errorCode # ERROR_NONE THEN s1
  ELSE IF s1.resumePointer = NULL THEN SetErr(s1, ERROR_RESUME)
  ELSE [s1 EXCEPT !.executionPointer = s1.resumePointer,
                  !.lineNumber = s1.resumeLineNumber]

proc_stop(s) ==
  LET s1 == checkDelimiter(s) IN
  IF s1.errorCode # ERROR_NONE THEN s1 ELSE executeBreak(s1)

proc_end_noInit(s) ==
  LET s1 == checkDelimiter(s) IN
  IF s1.errorCode # ERROR_NONE THEN s1 ELSE [s1 EXCEPT !.returnRequest = REQUEST_END]
proc_end(s) ==
  LET s1 == checkDelimiter(s) IN
  IF s1.errorCode # ERROR_NONE THEN s1
  ELSE programInit([s1 EXCEPT !.returnRequest = REQUEST_END])

proc_new(s) ==
  LET s1 == checkDelimiter(s) IN
  IF s1.errorCode # ERROR_NONE THEN s1 ELSE programNew(initializeValiables(s1))

(***************************************************************************)
(* The persistent store: eep.magic1 and eep.magic2 are the first two bytes *)
(* of the header, eep.prog is the payload.  An erased byte reads 0xff.     *)
(***************************************************************************)
EEP_MAGIC_1 == 110
EEP_MAGIC_2 == 66
EepErased ==
  [magic1 |-> 255, magic2 |-> 255, progLength |-> 0 - 1, autoRun |-> FALSE, prog |-> << >>]

proc_save_header(s) ==
  LET store(flag, s1) ==
        IF s1.errorCode # ERROR_NONE THEN s1
        ELSE IF s1.lineNumber # 0 THEN SetErr(s1, ERROR_NOTINRUN)
        ELSE IF flag = Ord("0") THEN [s1 EXCEPT !.eep = EepErased]
        ELSE IF s1.programArea[0] = ST_EOL THEN SetErr(s1, ERROR_PGEMPTY)
        ELSE [s1 EXCEPT !.eep = [magic1 |-> EEP_MAGIC_1, magic2 |-> EEP_MAGIC_2,
                                 progLength |-> s1.progLength,
                                 autoRun |-> flag = Ord("!"),
                                 prog |-> [i \in 1..s1.progLength |-> ST_EOL]]]
      end(flag) ==
        store(flag, checkDelimiter(IF flag = Ord("0") \/ flag = Ord("!") THEN Adv(s, 1) ELSE s))
  IN end(Cur(s))
proc_save(s) ==
  LET store(flag, s1) ==
        IF s1.errorCode # ERROR_NONE THEN s1
        ELSE IF s1.lineNumber # 0 THEN SetErr(s1, ERROR_NOTINRUN)
        ELSE IF flag = Ord("0") THEN [s1 EXCEPT !.eep = EepErased]
        ELSE IF s1.programArea[0] = ST_EOL THEN SetErr(s1, ERROR_PGEMPTY)
        ELSE [s1 EXCEPT !.eep = [magic1 |-> EEP_MAGIC_1, magic2 |-> EEP_MAGIC_2,
                                 progLength |-> s1.progLength,
                                 autoRun |-> flag = Ord("!"),
                                 prog |-> [i \in 1..s1.progLength |-> s1.programArea[i - 1]]]]
      end(flag) ==
        store(flag, checkDelimiter(IF flag = Ord("0") \/ flag = Ord("!") THEN Adv(s, 1) ELSE s))
  IN end(Cur(s))

\* progLoad: [s, v] with v the int8_t result.
progLoad_oneMagic(s) ==
  IF s.eep.magic1 # EEP_MAGIC_1 THEN Ret(SetErr(s, ERROR_PGEMPTY), 0 - 1)
  ELSE IF s.eep.progLength < 2 THEN Ret(SetErr(s, ERROR_PGEMPTY), 0 - 1)
  ELSE IF s.eep.progLength > PROGRAM_AREA_SIZE THEN Ret(SetErr(s, ERROR_PGOVER), 0 - 1)
  ELSE Ret([s EXCEPT !.progLength = s.eep.progLength,
                     !.programArea = [i \in 0..(PROGRAM_AREA_SIZE - 1) |->
                                        IF i < s.eep.progLength THEN s.eep.prog[i + 1]
                                        ELSE s.programArea[i]]],
           IF s.eep.autoRun THEN 1 ELSE 0)
progLoad(s) ==
  IF s.eep.magic1 # EEP_MAGIC_1 \/ s.eep.magic2 # EEP_MAGIC_2
    THEN Ret(SetErr(s, ERROR_PGEMPTY), 0 - 1)
  ELSE IF s.eep.progLength < 2 THEN Ret(SetErr(s, ERROR_PGEMPTY), 0 - 1)
  ELSE IF s.eep.progLength > PROGRAM_AREA_SIZE THEN Ret(SetErr(s, ERROR_PGOVER), 0 - 1)
  ELSE Ret([s EXCEPT !.progLength = s.eep.progLength,
                     !.programArea = [i \in 0..(PROGRAM_AREA_SIZE - 1) |->
                                        IF i < s.eep.progLength THEN s.eep.prog[i + 1]
                                        ELSE s.programArea[i]]],
           IF s.eep.autoRun THEN 1 ELSE 0)

proc_load(s) ==
  LET s1 == checkDelimiter(s) IN
  IF s1.errorCode # ERROR_NONE THEN s1
  ELSE IF s1.lineNumber # 0 THEN SetErr(s1, ERROR_NOTINRUN)
  ELSE progLoad(s1).s

RECURSIVE proc_comment(_)
proc_comment(s) == IF Cur(s) = ST_EOL THEN s ELSE proc_comment(Adv(s, 1))

\* get_arg2: the two values in v.
get_arg2(s) ==
  LET second(a, b) == Ret(checkDelimiter(b.s), << a, b.v >>)
      comma(a, s1) == IF s1.errorCode # ERROR_NONE THEN Ret(s1, << a, 0 >>)
                      ELSE second(a, Eval(s1))
      first(a) == comma(a.v, checkST(a.s, Ord(",")))
  IN first(Eval(s))

\* bios_writeGpio and bios_setPwm refuse a pin that the board has not:
\* io.ext < 0 stands for the refusal.
proc_outp(s) ==
  LET done(e) == IF e.v < 0 THEN SetErr(e.s, ERROR_PARA) ELSE e.s
      args(r) == IF r.s.errorCode # ERROR_NONE THEN r.s ELSE done(External(r.s))
  IN args(get_arg2(s))

proc_pwm(s) == proc_outp(s)

\* delayMs: one poll decides; a key other than break is thrown away.
delayMs_deaf(s, val) == [s EXCEPT !.used = TRUE]
delayMs(s, val) == checkBreakKey([s EXCEPT !.used = TRUE], s.io.wait).s

proc_delay(s) ==
  LET end(val, s1) == IF s1.errorCode # ERROR_NONE THEN s1 ELSE delayMs(s1, val)
      time(r) == end(r.v, checkDelimiter(r.s))
  IN time(Eval(s))

proc_pause(s) ==
  LET wait(r) == IF r.v = 0 THEN [r.s EXCEPT !.blocked = TRUE] ELSE r.s
      end(s1) == IF s1.errorCode # ERROR_NONE THEN s1
                 ELSE wait(checkBreakKey([s1 EXCEPT !.used = TRUE], s1.io.wait))
  IN end(checkDelimiter(s))

proc_randomize(s) == checkDelimiter(Eval(s).s)

proc_reset(s) ==
  LET s1 == checkDelimiter(s) IN
  IF s1.errorCode # ERROR_NONE THEN s1 ELSE [s1 EXCEPT !.reset = TRUE]

CompoundOps == { Ord("+"), Ord("-"), Ord("*"), Ord("/"), Ord("%"), Ord("|"), Ord("&"),
                 Ord("^") }

\* the switch (op) of let_variable, applied to the variable's value.
LetApply(s, pvar, op, val) ==
  LET set(z, v) == IF z.errorCode # ERROR_NONE THEN z ELSE SetVar(z, pvar, v)
      calc(old) ==
        IF op = Ord("+") THEN set(s, Wrap(old + val))
        ELSE IF op = Ord("-") THEN set(s, Wrap(old - val))
        ELSE IF op = Ord("*") THEN set(s, Wrap(old * val))
        ELSE IF op = Ord("/") \/ op = Ord("%") THEN
          set(checkDivZero(s, val),
              IF val = 0 THEN 0
              ELSE IF op = Ord("/") THEN Wrap(CDiv(old, val)) ELSE Wrap(CMod(old, val)))
        ELSE IF op = Ord("|") THEN set(s, BitOr(old, val))
        ELSE IF op = Ord("&") THEN set(s, BitAnd(old, val))
        ELSE IF op = Ord("^") THEN set(s, BitXor(old, val))
        ELSE IF op = Ord("<") THEN set(s, Shl(old, val))
        ELSE IF op = Ord(">") THEN set(s, Shr(old, val))
        ELSE IF op = Ord("=") THEN set(s, val)
        ELSE s
  IN calc(GetVar(s, pvar))

let_variable(s, pvar) ==
  LET apply(op, r) == IF r.s.errorCode # ERROR_NONE THEN r.s ELSE LetApply(r.s, pvar, op, r.v)
      equals(op, s2) == IF s2.errorCode # ERROR_NONE THEN s2 ELSE apply(op, Eval(s2))
      operator(op, double, s1) ==
        IF double /\ op = Ord("+") THEN SetVar(s1, pvar, Wrap(GetVar(s1, pvar) + 1))
        ELSE IF double /\ op = Ord("-") THEN SetVar(s1, pvar, Wrap(GetVar(s1, pvar) - 1))
        ELSE IF double /\ op # Ord("<") /\ op # Ord(">") THEN SetErr(s1, ERROR_SYNTAX)
        ELSE equals(op, checkST(s1, Ord("=")))
      skip(op, double) ==
        operator(op, double,
                 IF double THEN Adv(s, 2) ELSE IF op \in CompoundOps THEN Adv(s, 1) ELSE s)
  IN skip(Cur(s), Cur(s) = Rd(s, s.executionPointer + 1))

proc_let(s, pvar) == checkDelimiter(let_variable(s, pvar))

RECURSIVE proc_data(_)
proc_data(s) ==
  IF isDelimiter(Cur(s)) THEN s
  ELSE proc_data([s EXCEPT !.executionPointer = get_next_ptr(s, s.executionPointer)])

\* the do { ... } while (false) of proc_read, from the data position.
ReadValue(s, pvar) ==
  LET end(s2) == IF isDelimiter(Cur(s2)) \/ Cur(s2) = Ord(",") THEN s2
                 ELSE SetErr(s2, ERROR_PARA)
      value(r) == IF r.s.errorCode # ERROR_NONE THEN r.s ELSE end(SetVar(r.s, pvar, r.v))
      data(f) == IF f.v = NULL THEN SetErr(f.s, ERROR_UXREAD)
                 ELSE value(Eval([f.s EXCEPT !.executionPointer = f.v]))
  IN data(IF Cur(s) # Ord(",") THEN findST(s, st_list_data, s.lineNumber)
          ELSE Ret(s, s.executionPointer + 1))

proc_read(s) ==
  LET keep(ptrsave, s2) == [s2 EXCEPT !.dataReadPointer = s2.executionPointer,
                                      !.executionPointer = ptrsave]
      end(pvar, s1) ==
        IF s1.errorCode # ERROR_NONE THEN s1
        ELSE keep(s1.executionPointer,
                  ReadValue([s1 EXCEPT !.executionPointer =
                               IF s1.dataReadPointer = NULL THEN 1 ELSE s1.dataReadPointer],
                            pvar))
      param(p) == end(p.v, checkDelimiter(p.s))
  IN param(getParameterPointer(s))

proc_restore(s) ==
  LET s1 == checkDelimiter(s) IN
  IF s1.errorCode # ERROR_NONE THEN s1 ELSE [s1 EXCEPT !.dataReadPointer = NULL]

(***************************************************************************)
(* PRINT: the parse of the item list; what it moves and what it raises.    *)
(***************************************************************************)
\* ff & mask for a mask of one bit.
HasForm(ff, mask) == (ff \div mask) % 2 = 1

\* a digit loop that counts the decimal point as one position of the width.
RECURSIVE int2strLoop_pointInWidth(_, _, _, _, _)
int2strLoop_pointInWidth(val, ff, dot, len, str) ==
  LET digit(d) == IF d > 9 THEN d + Ord("0") + 7 + (IF HasForm(ff, FORM_LOWER) THEN FORM_LOWER ELSE 0)
                  ELSE d + Ord("0")
      next(v2, dot1, len1, s2) ==
        IF len > 0 /\ len1 <= 0 THEN [str |-> s2, len |-> 0]
        ELSE IF dot1 < 0 /\ v2 = 0 THEN [str |-> s2, len |-> len1]
        ELSE int2strLoop_pointInWidth(v2, ff, dot1, len1, s2)
      point(v2, dot1, s1) ==
        IF dot >= 0 /\ dot1 = 0
          THEN next(v2, dot1, IF len > 0 THEN len - 2 ELSE len, << Ord(".") >> \o s1)
          ELSE next(v2, dot1, IF len > 0 THEN len - 1 ELSE len, s1)
      put(ch, v2) == point(v2, IF dot >= 0 THEN dot - 1 ELSE dot, << ch >> \o str)
  IN IF HasForm(ff, FORM_HEX) THEN put(digit(val % 16), val \div 16)
     ELSE put(digit(val % 10), val \div 10)

\* the digit loop of int2str: [str, len] is the text written so far and
\* what is left of len.
RECURSIVE int2strLoop(_, _, _, _, _)
int2strLoop(val, ff, dot, len, str) ==
  LET digit(d) == IF d > 9 THEN d + Ord("0") + 7 + (IF HasForm(ff, FORM_LOWER) THEN FORM_LOWER ELSE 0)
                  ELSE d + Ord("0")
      next(v2, dot1, len1, s2) ==
        IF len > 0 /\ len1 = 0 THEN [str |-> s2, len |-> 0]
        ELSE IF dot1 < 0 /\ v2 = 0 THEN [str |-> s2, len |-> len1]
        ELSE int2strLoop(v2, ff, dot1, len1, s2)
      point(v2, dot1, s1) ==
        next(v2, dot1, IF len > 0 THEN len - 1 ELSE len,
             IF dot >= 0 /\ dot1 = 0 THEN << Ord(".") >> \o s1 ELSE s1)
      put(ch, v2) == point(v2, IF dot >= 0 THEN dot - 1 ELSE dot, << ch >> \o str)
  IN IF HasForm(ff, FORM_HEX) THEN put(digit(val % 16), val \div 16)
     ELSE put(digit(val % 10), val \div 10)

RECURSIVE Pad(_, _)
Pad(n, ch) == IF n <= 0 THEN << >> ELSE << ch >> \o Pad(n - 1, ch)

\* the padding of int2str after the digit loop; fx is 0 when no sign is shown.
int2strPad(ff, flag, fx, d) ==
  IF HasForm(ff, FORM_FLAG)
    THEN << flag >> \o Pad(d.len, ASCII_SP + (IF HasForm(ff, FORM_ZERO) THEN FORM_ZERO ELSE 0))
         \o d.str
  ELSE IF HasForm(ff, FORM_ZERO)
    THEN IF d.len = 0 /\ fx # 0 THEN << flag >> \o d.str
         ELSE IF d.len > 0 /\ fx # 0 THEN << flag >> \o Pad(d.len - 1, Ord("0")) \o d.str
         ELSE Pad(d.len, Ord("0")) \o d.str
  ELSE IF fx # 0 THEN Pad(d.len - 1, ASCII_SP) \o << flag >> \o d.str
  ELSE Pad(d.len, ASCII_SP) \o d.str

\* int2str: the text, as a sequence of character codes.
int2str(para, ff0, len0) ==
  LET digits(ff, dot, len, neg) ==
        int2strPad(ff, IF neg THEN Ord("-") ELSE IF HasForm(ff, FORM_PLUS) THEN Ord("+") ELSE ASCII_SP,
                   IF neg THEN Ord("-") ELSE IF HasForm(ff, FORM_PLUS) THEN Ord("+") ELSE 0,
                   int2strLoop(U16(IF neg THEN 0 - para ELSE para), ff, dot, len, << >>))
      sign(ff, dot, len) ==
        digits(ff, dot, len, para < 0 /\ ~(HasForm(ff, FORM_HEX) /\ ~HasForm(ff, FORM_FLAG)))
      width(ff, dot, len) == sign(ff, IF dot = 0 THEN 0 - 1 ELSE dot, IF len > 10 THEN 10 ELSE len)
      abs(ff, len) == width(ff, S8(CDiv(len, 100)), CMod(len, 100))
      zero(ff) == IF len0 < 0 /\ ~HasForm(ff, FORM_ZERO) THEN ff + FORM_ZERO ELSE ff
      style(ff) == abs(zero(ff), IF len0 < 0 THEN S16(0 - len0) ELSE len0)
  IN style(IF PRINT_HEX_STYLE = 1 /\ ~HasForm(ff0, FORM_LOWER) THEN ff0 + FORM_LOWER ELSE ff0)

\* printVal: the text of a value.
printVal(val) == int2str(val, 0, 0)

SimpleEscapes == { Ord("a"), Ord("b"), Ord("f"), Ord("n"), Ord("r"), Ord("t"), Ord("v"),
                   Ord("\\"), Ord("'"), Ord("\""), Ord("?") }
isoctal(c) == c >= Ord("0") /\ c <= Ord("7")

RECURSIVE HexRun(_, _, _), OctRun(_, _, _)
HexRun(s, p, count) ==
  IF count < 2 /\ hex2byte(Rd(s, p)) <= 15 THEN HexRun(s, p + 1, count + 1) ELSE p
OctRun(s, p, count) ==
  IF count < 3 /\ isoctal(Rd(s, p)) THEN OctRun(s, p + 1, count + 1) ELSE p

\* printChar, printString: the bytes go to the console.
Emit(s, str) == [s EXCEPT !.out = @ \o str]
printNewline(s) == Emit(s, << 10, 13 >>)

\* errorSting, by error code from ERROR_NONE.
ERROR_CODE_MAX == 19
errorSting ==
  << << >>,
     <<"S","y","n","t","a","x">>,
     <<"D","i","v","i","s","i","o","n"," ","b","y"," ","0">>,
     <<"A","r","r","a","y"," ","i","n","d","e","x"," ","o","v","e","r">>,
     <<"P","a","r","a","m","e","t","e","r">>,
     <<"S","t","a","c","k"," ","o","v","e","r","f","l","o","w">>,
     <<"C","a","n","'","t"," ","r","e","s","u","m","e">>,
     <<"L","a","b","e","l"," ","n","o","t"," ","f","o","u","n","d">>,
     <<"N","o","t"," ","i","n"," ","r","u","n","-","m","o","d","e">>,
     <<"P","G"," ","a","r","e","a"," ","o","v","e","r","f","l","o","w">>,
     <<"P","G"," ","e","m","p","t","y">>,
     <<"L","o","o","p"," ","n","o","t","h","i","n","g">>,
     <<"E","n","d","i","f"," ","n","o","t"," ","f","o","u","n","d">>,
     <<"E","x","p","r"," ","t","o","o"," ","d","e","e","p">>,
     <<"N","e","x","t">>,
     <<"R","e","t","u","r","n">>,
     <<"L","o","o","p">>,
     <<"E","x","i","t">>,
     <<"C","o","n","t","i","n","u","e">>,
     <<"R","e","a","d">> >>

\* printError: the message of errorCode and the line it arose in, between
\* two newlines; a newline alone without an error.
printError(s) ==
  LET where(r) ==
        printNewline(IF s.errorCode # ERROR_NONE /\ r.lineNumber # 0
                       THEN Emit(r, Codes(<<" ","i","n"," ">>) \o printVal(r.lineNumber))
                       ELSE r)
      name(r) == Emit(r, Codes(errorSting[r.errorCode + 1]) \o Codes(<<" ","e","r","r","o","r">>))
      known(r) == name(IF r.errorCode > ERROR_CODE_MAX THEN SetErr(r, ERROR_SYNTAX) ELSE r)
      text(r) == known(IF r.errorCode >= ERROR_UXNEXT
                         THEN Emit(r, Codes(<<"U","n","e","x","p","e","c","t","e","d"," ">>))
                         ELSE r)
      head(r) == IF r.errorCode = ERROR_NONE THEN r
                 ELSE IF r.errorCode = ERROR_BREAK
                   THEN Emit(r, << 13, 10 >> \o Codes(<<"B","r","e","a","k">>))
                 ELSE text(printNewline(r))
  IN where(head(s))

\* the prompt basicMain writes before it waits for a line.
Prompt(s) == Emit(s, Codes(<<"O","K">>) \o << 13, 10 >>)

\* the value of a \x or octal escape between the addresses p and q.
RECURSIVE EscVal(_, _, _, _, _)
EscVal(s, p, q, base, val) ==
  IF p >= q THEN val
  ELSE EscVal(s, p + 1, q, base, (val * base + hex2byte(Rd(s, p))) % 256)

\* the character a simple escape prints.
EscChar(c) ==
  CASE c = Ord("a") -> 7 [] c = Ord("b") -> 8 [] c = Ord("f") -> 12 [] c = Ord("n") -> 10
    [] c = Ord("r") -> 13 [] c = Ord("t") -> 9 [] c = Ord("v") -> 11 [] OTHER -> c

\* print_escaped: [s, v] with v the pointer returned.
RECURSIVE print_escaped(_, _)
print_escaped(s, p) ==
  LET hex(q) == print_escaped(Emit(s, << EscVal(s, p + 2, q, 16, 0) >>), q)
      oct(q) == print_escaped(Emit(s, << EscVal(s, p + 1, q, 8, 0) >>), q)
      escape(c2) ==
        IF c2 = Ord("x") THEN hex(HexRun(s, p + 2, 0))
        ELSE IF c2 \in SimpleEscapes THEN print_escaped(Emit(s, << EscChar(c2) >>), p + 2)
        ELSE IF ~isoctal(c2)
          THEN print_escaped(IF c2 # 0 THEN Emit(s, << c2 >>) ELSE s, p + 2)
        ELSE oct(OctRun(s, p + 1, 0))
      char(c) ==
        IF c = 0 THEN Ret(s, p)
        ELSE IF c = ST_STRING THEN Ret(s, p + 1)
        ELSE IF c = Ord("\\") THEN escape(Rd(s, p + 1))
        ELSE print_escaped(Emit(s, << c >>), p + 1)
  IN char(Rd(s, p))

\* get_StringPara_Form: [s, v] with v the text, NULL for the null pointer.
get_StringPara_Form(s, fm) ==
  LET close(val, len, s3) ==
        IF s3.errorCode # ERROR_NONE THEN Ret(s3, NULL) ELSE Ret(s3, int2str(val, fm, len))
      width(val, w) == close(val, w.v, checkST(w.s, Ord(")")))
      value(r) ==
        IF r.s.errorCode # ERROR_NONE THEN Ret(r.s, NULL)
        ELSE IF Cur(r.s) = Ord(",") THEN width(r.v, Eval(Adv(r.s, 1)))
        ELSE close(r.v, 0, checkST(r.s, Ord(")")))
      open(s1) == IF s1.errorCode # ERROR_NONE THEN Ret(s1, NULL) ELSE value(Eval(s1))
  IN open(checkST(s, Ord("(")))

RECURSIVE printLoop(_, _, _)
printLoop(s, exp_flag, lastChar) ==
  LET value(r, ch) == IF r.s.errorCode # ERROR_NONE THEN r.s
                      ELSE printLoop(Emit(r.s, printVal(r.v)), TRUE, ch)
      chr(r, ch) ==
        IF r.s.errorCode # ERROR_NONE THEN r.s
        ELSE printLoop(Emit(r.s, IF r.v >= 256 THEN << (U16(r.v) \div 256) % 256, U16(r.v) % 256 >>
                                 ELSE << U16(r.v) % 256 >>), FALSE, ch)
      form(r, ch) ==
        printLoop(IF r.s.errorCode = ERROR_NONE THEN Emit(r.s, r.v) ELSE r.s, FALSE, ch)
      string(r, ch) == printLoop([r.s EXCEPT !.executionPointer = r.v], FALSE, ch)
      item(ch, s1) ==
        IF isDelimiter(ch)
          THEN IF lastChar # Ord(";") /\ lastChar # Ord(",") THEN printNewline(s) ELSE s
        ELSE IF ch = ST_STRING THEN string(print_escaped(s1, s1.executionPointer), ch)
        ELSE IF ch = Ord(";") THEN printLoop(s1, FALSE, ch)
        ELSE IF ch = Ord(",") THEN printLoop(Emit(s1, << 9 >>), FALSE, ch)
        ELSE IF ch = FUNC_CHR THEN chr(calcValueFunc(s1), ch)
        ELSE IF ch = FUNC_HEX THEN form(get_StringPara_Form(s1, FORM_HEX), ch)
        ELSE IF ch = FUNC_DEC THEN form(get_StringPara_Form(s1, FORM_DEC), ch)
        ELSE IF exp_flag THEN SetErr(s1, ERROR_SYNTAX)
        ELSE value(Eval(s), ch)
  IN item(Cur(s), Adv(s, 1))

proc_print(s) == printLoop(s, FALSE, 0)

(***************************************************************************)
(* proc_list.  listLine gives the text of the stored line whose first code  *)
(* is at ptr, without the newline, and the pointer after its ST_EOL.        *)
(***************************************************************************)
\* the keyword of a token as LIST_STYLE 0 prints it.
listKeyword(ch) ==
  IF ch - TOKEN_START < Len(keyWordList)
    THEN [k \in 1..Len(keyWordList[ch - TOKEN_START + 1]) |->
            toupper(Ord(keyWordList[ch - TOKEN_START + 1][k]))]
    ELSE << >>

\* lines 1730-1736: the string up to its closing quote, a backslash with
\* the character after it.
RECURSIVE listString(_, _, _)
listString(s, ptr, text) ==
  LET ch == Rd(s, ptr) IN
  IF ptr >= PROGRAM_AREA_SIZE - 1 THEN [ptr |-> ptr, text |-> text]
  ELSE IF ch = Ord("\\") THEN listString(s, ptr + 2, text \o << ch, Rd(s, ptr + 1) >>)
  ELSE IF ch = ST_STRING THEN [ptr |-> ptr + 1, text |-> Append(text, ch)]
  ELSE listString(s, ptr + 1, Append(text, ch))

\* lines 1739-1743: the comment up to the end of the line.
RECURSIVE listComment(_, _, _)
listComment(s, ptr, text) ==
  IF ptr >= PROGRAM_AREA_SIZE - 1 \/ Rd(s, ptr) = ST_EOL THEN [ptr |-> ptr, text |-> text]
  ELSE listComment(s, ptr + 1, Append(text, Rd(s, ptr)))

\* the inner loop of lines 1706-1772; flag is true until the first item
\* of the line that is not a value.
RECURSIVE listLine(_, _, _, _)
listLine(s, ptr, flag, text) ==
  LET ch == Rd(s, ptr)
      hex == HasForm(ch, VAL_BASE_HEX)
      value(v) ==
        text \o (IF hex THEN << Ord("0"), Ord("x") >> ELSE << >>)
             \o int2str(v, IF hex THEN FORM_HEX ELSE 0, 0)
             \o (IF ~hex /\ flag THEN << ASCII_SP >> ELSE << >>)
      after(t) ==
        IF ch <= STSP_END /\ ~isDelimiter(Rd(s, ptr + 1)) THEN Append(t, ASCII_SP) ELSE t
      keyword(t) == after(t \o listKeyword(ch))
      token == keyword(IF ~flag /\ ch >= STSP_START /\ ch <= STSP_END
                         THEN Append(text, ASCII_SP) ELSE text)
      copied(r) == listLine(s, r.ptr, FALSE, r.text)
      item(r) ==
        IF r.p # NULL THEN listLine(s, r.p, flag, value(r.v))
        ELSE IF ch = ST_EOL THEN [ptr |-> ptr + 1, text |-> text]
        ELSE IF ch = ST_STRING THEN copied(listString(s, ptr + 1, Append(text, ch)))
        ELSE IF ch = ST_COMMENT THEN copied(listComment(s, ptr + 1, Append(text, ch)))
        ELSE IF ch >= TOKEN_START THEN listLine(s, ptr + 1, FALSE, token)
        ELSE listLine(s, ptr + 1, FALSE, Append(text, ch))
  IN IF ptr >= PROGRAM_AREA_SIZE - 2 THEN [ptr |-> ptr, text |-> text]
     ELSE item(get_dec_val(s, ptr))

\* the outer loop of lines 1704-1773: ptr is at the length byte of a line.
RECURSIVE listProgram(_, _)
listProgram(s, ptr) ==
  LET line(r) == listProgram(printNewline(Emit(s, r.text)), r.ptr)
  IN IF ptr >= PROGRAM_AREA_SIZE - 2 \/ Rd(s, ptr) = ST_EOL THEN s
     ELSE line(listLine(s, ptr + 1, TRUE, << >>))

proc_list(s) ==
  LET size(t) == Emit(t, << Ord("[") >> \o printVal(t.progLength)
                         \o << ASCII_SP, Ord("b"), Ord("y"), Ord("t"), Ord("e"), Ord("s"),
                               Ord("]"), 13, 10 >>)
      count(t) == size(IF t.progLength < 2 THEN [t EXCEPT !.progLength = 0] ELSE t)
      list(s1) == IF s1.errorCode # ERROR_NONE THEN s1 ELSE count(listProgram(s1, 0))
  IN list(checkDelimiter(s))

(***************************************************************************)
(* PROG.  proc_prog runs to its first prompt and parks there (inProg);     *)
(* ProgInput is one turn of its loop, from the reset of errorCode to the   *)
(* end of the loop body, with the line the console delivered.              *)
(***************************************************************************)
proc_prog(s) ==
  LET s1 == checkDelimiter(s) IN
  IF s1.errorCode # ERROR_NONE THEN s1
  ELSE IF s1.lineNumber # 0 THEN SetErr(s1, ERROR_NOTINRUN)
  ELSE [s1 EXCEPT !.remain = PROGRAM_AREA_SIZE - 3, !.progLength = 0, !.progPtr = 0,
                  !.inProg = TRUE]

\* internalcodeBuff after convertInternalCode returned r.
StoreCode(s, r) ==
  [s EXCEPT !.internalcodeBuff =
     [i \in 0..(CODE_BUFF_SIZE - 1) |->
        IF i = 0 THEN (IF r.eol THEN r.len ELSE s.internalcodeBuff[0])
        ELSE IF i <= Len(r.dst) THEN r.dst[i]
        ELSE s.internalcodeBuff[i]],
     !.errorCode = IF r.err # ERROR_NONE THEN r.err ELSE s.errorCode]

\* the copy loop of lines 1816-1818: n bytes to programArea[progPtr...];
\* a byte that falls outside programArea is noted in overrun.
CopyLine_noLength(s, n) ==
  [s EXCEPT !.programArea = [i \in 0..(PROGRAM_AREA_SIZE - 1) |->
                               IF i >= s.progPtr /\ i < s.progPtr + n - 1
                                 THEN s.internalcodeBuff[i - s.progPtr + 1]
                                 ELSE s.programArea[i]],
            !.progPtr = @ + n - 1,
            !.overrun = @ \/ (s.progPtr + n > PROGRAM_AREA_SIZE)]
CopyLine(s, n) ==
  [s EXCEPT !.programArea = [i \in 0..(PROGRAM_AREA_SIZE - 1) |->
                               IF i >= s.progPtr /\ i < s.progPtr + n
                                 THEN s.internalcodeBuff[i - s.progPtr]
                                 ELSE s.programArea[i]],
            !.progPtr = @ + n,
            !.overrun = @ \/ (s.progPtr + n > PROGRAM_AREA_SIZE)]

\* lines 1822-1823, after the loop.
ProgFinish(s) ==
  [s EXCEPT !.programArea = [i \in 0..(PROGRAM_AREA_SIZE - 1) |->
                               IF i = s.progPtr THEN ST_EOL ELSE s.programArea[i]],
            !.overrun = @ \/ (s.progPtr >= PROGRAM_AREA_SIZE),
            !.progPtr = @ + 1,
            !.progLength = IF s.progLength > 1 THEN s.progLength + 1 ELSE s.progLength,
            !.inProg = FALSE]

ProgInput(s0, line) ==
  LET copy(rlen, s2) ==
        IF s2.errorCode # ERROR_NONE THEN s2
        ELSE IF rlen > 0
          THEN CopyLine([s2 EXCEPT !.progLength = S16(@ + rlen + 1),
                                   !.remain = U16(@ - (rlen + 1))], rlen + 1)
          ELSE s2
      room(rlen, s1) == copy(rlen, IF s1.remain < rlen THEN SetErr(s1, ERROR_PGOVER) ELSE s1)
      store(s, r) == room(r.len, StoreCode(s, r))
      input(s) ==
        IF Len(line) = 0 THEN s
        ELSE IF line[1] = CHR_PROG_TERM THEN ProgFinish([s EXCEPT !.returnRequest = REQUEST_END])
        ELSE store(s, convertInternalCode(line))
  IN input([s0 EXCEPT !.errorCode = ERROR_NONE])

(***************************************************************************)
(* interpreterMain.  InterpHead is the head of the outer loop (lines       *)
(* 411-425); Dispatch is one turn of the inner loop (lines 427-478) with   *)
(* what follows it up to the next poll.  exit says how interpreterMain     *)
(* returned.                                                               *)
(***************************************************************************)
Leave(s, how) == [s EXCEPT !.pc = "repl", !.exit = how]

\* what the console shows when interpreterMain or basicMain has returned:
\* printError() of a return with errorCode set (lines 305, 311, 474), then
\* the OK of the next basicMain (line 302).
Report(s) ==
  LET ok(r) == IF s.pc = "repl" /\ s.exit # "none" THEN Prompt(r) ELSE r
  IN ok(IF s.pc = "repl" /\ s.exit \in { "error", "break" } THEN printError(s) ELSE s)

InterpHead(s) ==
  LET s1 == Adv(s, 1)
      c2 == Cur(s1)
  IN IF Cur(s) = ST_EOL \/ s.returnRequest = REQUEST_END
       THEN Leave(IF s1.lineNumber # 0 THEN programInit(s1) ELSE s1,
                  IF s.returnRequest = REQUEST_END THEN "endreq" ELSE "off")
       ELSE [(IF s1.lineNumber = 0 THEN s1
              ELSE IF isdigit(c2) THEN Adv(s1, 1)
              ELSE IF IS_ST_VAL_DEC(c2) THEN Adv(s1, GET_VAL_SIZE(c2) + 1)
              ELSE s1) EXCEPT !.pc = "run", !.exit = "none"]

procCode(s, ch) ==
  CASE ch = ST_PRINT     -> proc_print(s)
    [] ch = ST_INPUT     -> proc_input(s)
    [] ch = ST_GOTO      -> proc_goto(s)
    [] ch = ST_GOSUB     -> proc_gosub(s)
    [] ch = ST_RETURN    -> proc_return(s)
    [] ch = ST_FOR       -> proc_for(s)
    [] ch = ST_NEXT      -> proc_next(s)
    [] ch = ST_DO        -> proc_do(s)
    [] ch = ST_LOOP      -> proc_loop(s)
    [] ch = ST_WHILE     -> proc_while(s)
    [] ch = ST_IF        -> proc_if(s)
    [] ch = ST_RUN       -> proc_run(s)
    [] ch = ST_RESUME    -> proc_resume(s)
    [] ch = ST_STOP      -> proc_stop(s)
    [] ch = ST_END       -> proc_end(s)
    [] ch = ST_NEW       -> proc_new(s)
    [] ch = ST_LIST      -> proc_list(s)
    [] ch = ST_PROG      -> proc_prog(s)
    [] ch = ST_SAVE      -> proc_save(s)
    [] ch = ST_LOAD      -> proc_load(s)
    [] ch = ST_DELAY     -> proc_delay(s)
    [] ch = ST_PAUSE     -> proc_pause(s)
    [] ch = ST_RESET     -> proc_reset(s)
    [] ch = ST_EXIT      -> proc_exit(s)
    [] ch = ST_CONTINUE  -> proc_continue(s)
    [] ch = ST_RONDOMIZE -> proc_randomize(s)
    [] ch = ST_DATA      -> proc_data(s)
    [] ch = ST_READ      -> proc_read(s)
    [] ch = ST_RESTORE   -> proc_restore(s)
    [] ch = ST_OUTP      -> proc_outp(s)
    [] ch = ST_PWM       -> proc_pwm(s)
    [] ch = ST_ELSE      -> proc_else(s)
    [] ch = ST_ELSEIF    -> proc_elseif(s)
    [] ch = ST_ENDIF     -> proc_endif(s)

\* the statement that begins with the byte ch (lines 442-470); s is the
\* machine after ch = *executionPointer++.  getArrayReference returns NULL
\* only with errorCode set, so its printError(); return is the one of
\* lines 472-475.
statement(s, ch) ==
  IF ch = ASCII_SP \/ ch = 9 \/ ch = Ord(":") THEN s
  ELSE IF ch = ST_ARRAY THEN
    LET assign(r) == IF r.v = NULL THEN r.s ELSE proc_let(r.s, r.v)
    IN assign(getArrayReference(s))
  ELSE IF isupper(ch) THEN proc_let(s, ch - Ord("A"))
  ELSE IF ch = ST_COMMENT THEN proc_comment(s)
  ELSE IF ch >= STCODE_START /\ ch <= STCODE_END THEN procCode(s, ch)
  ELSE SetErr(s, ERROR_SYNTAX)

Call(f, s, ch) == IF f = "expr" THEN expr(s) ELSE statement(s, ch)

(***************************************************************************)
(* basicInit: the machine after power-up or RESET.  Only the persistent    *)
(* store survives; io.wait is what the auto-run wait polls.                *)
(***************************************************************************)
NoPoll == [age |-> 4, follow |-> 0, ptr |-> NULL]
ZeroFrame == [type |-> 0, returnPointer |-> NULL, returnLineNumber |-> 0, pvar |-> 0,
              limit |-> 0, step |-> 0]
PowerUp(s) ==
  [programArea |-> [i \in 0..(PROGRAM_AREA_SIZE - 1) |-> 0],
   internalcodeBuff |-> [i \in 0..(CODE_BUFF_SIZE - 1) |-> 0],
   globalVariables |-> [i \in 0..(VARIABLE_NUM - 1) |-> 0],
   arrayValiables |-> [i \in 0..(ARRAY_INDEX_NUM - 1) |-> 0],
   stacks |-> [i \in 0..(STACK_NUM - 1) |-> ZeroFrame],
   lineNumber |-> 0, executionPointer |-> NULL, errorCode |-> ERROR_NONE,
   returnRequest |-> REQUEST_NOTHING, stackPointer |-> 0, exprDepth |-> 0,
   dataReadPointer |-> NULL, resumePointer |-> NULL, resumeLineNumber |-> 0,
   progLength |-> 0, eep |-> s.eep, progPtr |-> 0, remain |-> 0,
   pc |-> "repl", exit |-> "none", inProg |-> FALSE, reset |-> FALSE,
   io |-> s.io, used |-> s.used, blocked |-> FALSE, escape |-> s.escape,
   overrun |-> FALSE, polled |-> NoPoll, lastOp |-> s.lastOp, out |-> s.out,
   divz |-> s.divz, idx |-> s.idx]

basicInit(s) ==
  LET autorun(d) == IF d.errorCode = ERROR_NONE THEN InterpHead(programRun(d))
                    ELSE Prompt(programNew(printError(d)))
      loaded(l) == IF l.v > 0
                     THEN autorun(delayMs(Emit(l.s, Codes(<<"A","u","t","o"," ","r","u","n">>) \o << 13, 10 >>),
                                          AUTORUN_WAIT_TIME))
                   ELSE Prompt(programNew(l.s))
  IN loaded(progLoad(Emit(initializeValiables(PowerUp(s)),
                          << 13, 10 >> \o Codes(<<"n","a","n","o","B","A","S","I","C"," ","U","N","O"," ","V","e","r"," ","0",".","1","8">>) \o << 13, 10 >>)))

\* lines 472-478, after a statement; also where PROG comes back to.
AfterStatement(s) ==
  IF s.reset THEN basicInit(s)
  ELSE IF s.inProg THEN [s EXCEPT !.pc = "prog"]
  ELSE IF s.errorCode # ERROR_NONE
    THEN Leave(s, IF s.errorCode = ERROR_BREAK THEN "break" ELSE "error")
  ELSE IF s.returnRequest # REQUEST_NOTHING THEN InterpHead(s)
  ELSE [s EXCEPT !.pc = "run", !.exit = "none"]

Dispatch(s0) ==
  LET fetch(s, ch) ==
        IF ch = ST_EOL THEN
          IF s.lineNumber = 0 THEN Leave(s, "eol")
          ELSE InterpHead([s EXCEPT !.lineNumber = @ + 1])
        ELSE AfterStatement(Exec(s, ch))
      clear(t) == fetch(Adv([t EXCEPT !.lastOp = Cur(t)], 1), Cur(t))
      poll(k) ==
        IF k.v < 0 THEN Leave(k.s, "break")
        ELSE clear([k.s EXCEPT !.exprDepth = 0, !.returnRequest = REQUEST_NOTHING])
  IN poll(checkBreakKey(s0, s0.io.key))

(***************************************************************************)
(* basicMain, from its entry to the point where it waits again: the        *)
(* console delivers line, a non-empty raw line.                            *)
(***************************************************************************)
basicMainEntry(s) ==
  [s EXCEPT !.errorCode = ERROR_NONE, !.lineNumber = 0, !.returnRequest = REQUEST_NOTHING]

basicMain(s0, line) ==
  LET run(r, s1) ==
        IF s1.errorCode # ERROR_NONE THEN Leave(s1, "error")
        ELSE IF r.len > 1 THEN InterpHead([s1 EXCEPT !.executionPointer = CodeBase])
        ELSE [s1 EXCEPT !.pc = "repl", !.exit = "none"]
      convert(r) == run(r, StoreCode(basicMainEntry(s0), r))
  IN convert(convertInternalCode(line))

\* a break in the REPL that took a snapshot as a break in Run mode does.
basicMainBreak_newSnapshot(s) ==
  Leave([executeBreak(basicMainEntry(s)) EXCEPT !.resumePointer = s.executionPointer,
                                                !.resumeLineNumber = 0], "break")
\* inputString returns 0 on 0x03: executeBreak, printError, return.
basicMainBreak(s) == Leave(executeBreak(basicMainEntry(s)), "break")

(***************************************************************************)
(* The state: the interpreter's globals, the persistent store, proc_prog's  *)
(* locals (progPtr, remain) and the place the console is served from (pc:  *)
(* the prompt of basicMain, the prompt of PROG, or the executor).          *)
(***************************************************************************)
VARIABLES
  programArea, internalcodeBuff, globalVariables, arrayValiables, stacks, lineNumber,
  executionPointer, errorCode, returnRequest, stackPointer, exprDepth, dataReadPointer,
  resumePointer, resumeLineNumber, progLength, eep, progPtr, remain, pc

\* what the last action did: how interpreterMain returned (exit), whether a
\* scan read outside its line or program (escape), whether PROG wrote outside
\* programArea (overrun), the machine at the last Run-mode break (polled), the
\* opcode last dispatched (lastOp), the bytes written to the console
\* during the last action (out), whether a division or modulo by 0 was met
\* during the last action (divz), the array indices evaluated during the last
\* action, in order (idx).
VARIABLES exit, escape, overrun, polled, lastOp, out, divz, idx

\* the console session: the scenario played, the PROG lines fed, the REPL
\* lines and the 0x03 bytes sent so far, the control stack before the last action.
VARIABLES scen, fed, nrepl, nbrk, before

\* a raw line on its way through PROG, LIST and the tokenizer again.
VARIABLES probe

machine == <<
  programArea, internalcodeBuff, globalVariables, arrayValiables, stacks, lineNumber,
  executionPointer, errorCode, returnRequest, stackPointer, exprDepth, dataReadPointer,
  resumePointer, resumeLineNumber, progLength, eep, progPtr, remain, pc >>
vars == << machine, exit, escape, overrun, polled, lastOp, out, divz, idx, scen, fed, nrepl,
          nbrk, before, probe >>

\* the machine as the record the operators pass along, with the console
\* input of this action.
M(io) ==
  [programArea |-> programArea,
   internalcodeBuff |-> internalcodeBuff,
   globalVariables |-> globalVariables,
   arrayValiables |-> arrayValiables,
   stacks |-> stacks,
   lineNumber |-> lineNumber,
   executionPointer |-> executionPointer,
   errorCode |-> errorCode,
   returnRequest |-> returnRequest,
   stackPointer |-> stackPointer,
   exprDepth |-> exprDepth,
   dataReadPointer |-> dataReadPointer,
   resumePointer |-> resumePointer,
   resumeLineNumber |-> resumeLineNumber,
   progLength |-> progLength,
   eep |-> eep,
   progPtr |-> progPtr,
   remain |-> remain,
   pc |-> pc,
   exit |-> "none", escape |-> FALSE, overrun |-> overrun, polled |-> polled,
   lastOp |-> 0, inProg |-> pc = "prog", reset |-> FALSE, io |-> io, used |-> FALSE,
   blocked |-> FALSE, out |-> << >>, divz |-> FALSE,
   idx |-> << >>]

Becomes(r0) ==
  LET set(r) ==
        /\ programArea' = r.programArea
        /\ internalcodeBuff' = r.internalcodeBuff
        /\ globalVariables' = r.globalVariables
        /\ arrayValiables' = r.arrayValiables
        /\ stacks' = r.stacks
        /\ lineNumber' = r.lineNumber
        /\ executionPointer' = r.executionPointer
        /\ errorCode' = r.errorCode
        /\ returnRequest' = r.returnRequest
        /\ stackPointer' = r.stackPointer
        /\ exprDepth' = r.exprDepth
        /\ dataReadPointer' = r.dataReadPointer
        /\ resumePointer' = r.resumePointer
        /\ resumeLineNumber' = r.resumeLineNumber
        /\ progLength' = r.progLength
        /\ eep' = r.eep
        /\ progPtr' = r.progPtr
        /\ remain' = r.remain
        /\ pc' = r.pc
        /\ exit' = r.exit
        /\ escape' = r.escape
        /\ overrun' = r.overrun
        /\ polled' = r.polled
        /\ lastOp' = r.lastOp
        /\ out' = r.out
        /\ divz' = r.divz
        /\ idx' = r.idx
  IN set(Report(r0))

(***************************************************************************)
(* The console sessions.  A scenario is a stored program, typed in at the   *)
(* PROG prompt line by line, and the lines the user may type at the REPL   *)
(* prompt, in any order.                                                   *)
(***************************************************************************)
MaxRepl   == 3
MaxBreaks == 3

LongLine(n) == [i \in 1..n |-> ":"]

\* frames left open when the program runs off its end.
OpenFrames ==
  [prog |-> << <<"G","O","S","U","B"," ","1","0">>,
            <<"1","0"," ","F","O","R"," ","I","=","1"," ","T","O"," ","2">>,
            <<"D","O">>,
            <<"W","H","I","L","E"," ","1">> >>,
   repl |-> { <<"P","R","O","G">>,
            <<"R","U","N">> }]

\* frames left open at END.
OpenAtEnd ==
  [prog |-> << <<"D","O",":","G","O","S","U","B"," ","2","0">>,
            <<"2","0"," ","F","O","R"," ","I","=","1"," ","T","O"," ","3",":","E","N","D",":","N","E","X","T">> >>,
   repl |-> { <<"P","R","O","G">>,
            <<"R","U","N">>,
            <<"F","O","R"," ","I","=","1"," ","T","O"," ","2">> }]

\* a loop to break into, and an error to raise after the break.
BreakLoop ==
  [prog |-> << <<"A","=","0">>,
            <<"D","O",":","A","+","+",":","D","E","L","A","Y"," ","1",":","L","O","O","P"," ","W","H","I","L","E"," ","A","<","2">>,
            <<"B","=","A">> >>,
   repl |-> { <<"P","R","O","G">>,
            <<"R","U","N">>,
            <<"R","E","S","U","M","E">>,
            <<"C","=","1","/","0">> }]

\* an error inside a subroutine.
ErrorInSub ==
  [prog |-> << <<"G","O","S","U","B"," ","1","0">>,
            <<"E","N","D">>,
            <<"1","0"," ","A","=","1","/","0">> >>,
   repl |-> { <<"P","R","O","G">>,
            <<"R","U","N">>,
            <<"R","E","T","U","R","N">>,
            <<"R","E","S","U","M","E">> }]

\* NEW inside the stored program.
NewInRun ==
  [prog |-> << <<"A","=","1">>,
            <<"N","E","W">>,
            <<"A","=","2">> >>,
   repl |-> { <<"P","R","O","G">>,
            <<"R","U","N">>,
            <<"S","A","V","E">>,
            <<"L","O","A","D">> }]

\* PROG and LOAD inside the stored program.
ProgInRun ==
  [prog |-> << <<"I","F"," ","A"," ","T","H","E","N"," ","L","O","A","D">>,
            <<"A","=","1",":","P","R","O","G">> >>,
   repl |-> { <<"P","R","O","G">>,
            <<"R","U","N">>,
            <<"S","A","V","E">> }]

\* GOSUB nested beyond the stack.
DeepGosub ==
  [prog |-> << <<"1","0"," ","G","O","S","U","B"," ","1","0">> >>,
   repl |-> { <<"P","R","O","G">>,
            <<"R","U","N">>,
            <<"R","E","T","U","R","N">> }]

\* DO nested beyond the stack.
DeepDo ==
  [prog |-> << <<"1","0"," ","D","O",":","G","O","T","O"," ","1","0">> >>,
   repl |-> { <<"P","R","O","G">>,
            <<"R","U","N">>,
            <<"L","O","O","P">> }]

\* FOR nested beyond the stack.
DeepFor ==
  [prog |-> << <<"1","0"," ","F","O","R"," ","I","=","1"," ","T","O"," ","2",":","G","O","T","O"," ","1","0">> >>,
   repl |-> { <<"P","R","O","G">>,
            <<"R","U","N">>,
            <<"N","E","X","T">> }]

\* WHILE nested beyond the stack.
DeepWhile ==
  [prog |-> << <<"1","0"," ","W","H","I","L","E"," ","1",":","G","O","T","O"," ","1","0">> >>,
   repl |-> { <<"P","R","O","G">>,
            <<"R","U","N">>,
            <<"E","X","I","T">> }]

\* terminators that meet a frame of another kind.
Mismatch ==
  [prog |-> << <<"G","O","S","U","B"," ","1","0">>,
            <<"E","N","D">>,
            <<"1","0"," ","F","O","R"," ","I","=","1"," ","T","O"," ","2",":","R","E","T","U","R","N">> >>,
   repl |-> { <<"P","R","O","G">>,
            <<"R","U","N">>,
            <<"G","O","S","U","B"," ","1","0",":","L","O","O","P">> }]

\* terminators typed at the prompt that meet a frame of another kind.
MismatchRepl ==
  [prog |-> << >>,
   repl |-> { <<"F","O","R"," ","I","=","1"," ","T","O"," ","2",":","D","O",":","N","E","X","T">>,
            <<"D","O",":","F","O","R"," ","I","=","1"," ","T","O"," ","2",":","L","O","O","P">> }]

\* terminators on an empty stack.
EmptyStack ==
  [prog |-> <<  >>,
   repl |-> { <<"N","E","X","T">>,
            <<"L","O","O","P">>,
            <<"R","E","T","U","R","N">>,
            <<"E","X","I","T">>,
            <<"C","O","N","T","I","N","U","E">>,
            <<"D","O",":","L","O","O","P">> }]

\* the logical operators.
Logical ==
  [prog |-> <<  >>,
   repl |-> { <<"A","=","0","&","&","1">>,
            <<"A","=","1","|","|","0">>,
            <<"A","=","1","&","&","0">>,
            <<"A","=","0","|","|","0">>,
            <<"A","=","2","&","&","3">>,
            <<"B","=","(","0","&","&","1",")","+","5">> }]

\* a skipped IF branch that ends in a comment.
Comment ==
  [prog |-> << <<"I","F"," ","0"," ","T","H","E","N"," ","A","=","1"," ","'","C">>,
            <<"B","=","1"," ","E","N","D","I","F">> >>,
   repl |-> { <<"P","R","O","G">>,
            <<"R","U","N">>,
            <<"I","F"," ","0"," ","T","H","E","N"," ","?","1"," ","'","X">>,
            <<"I","F"," ","0"," ","T","H","E","N"," ","?","1">> }]

\* a program that fills the program area: 41 lines of 18 stored bytes,
\* one of 28, and one more.
FillArea ==
  [prog |-> [i \in 1..43 |-> IF i = 42 THEN LongLine(26) ELSE LongLine(16)],
   repl |-> { <<"P","R","O","G">> }]

\* a false WHILE whose LOOP is two lines further, and an error after it.
StaleLine ==
  [prog |-> << <<"W","H","I","L","E"," ","0">>,
            <<"A","=","1">>,
            <<"L","O","O","P">>,
            <<"B","=","1","/","0">> >>,
   repl |-> { <<"P","R","O","G">>,
            <<"R","U","N">> }]

\* CONTINUE inside a FOR loop, with a statement between it and NEXT.
ContinueFor ==
  [prog |-> << <<"F","O","R"," ","I","=","1"," ","T","O"," ","2">>,
            <<"C","O","N","T","I","N","U","E",":","A","=","A","+","1">>,
            <<"N","E","X","T">> >>,
   repl |-> { <<"P","R","O","G">>,
            <<"R","U","N">> }]

\* division and modulo by 0, in expressions and in compound assignments.
DivZero ==
  [prog |-> <<  >>,
   repl |-> { <<"A","=","7">>,
            <<"A","/","=","0">>,
            <<"A","%","=","0">>,
            <<"?","1","/","0">>,
            <<"?","1","%","0">>,
            <<"?","5",";","B","/","0">>,
            <<"@","[","1","]","=","9","/","0">>,
            <<"B","=","6","/","(","A","-","7",")">> }]

\* array accesses at and beyond the ends of the array.
ArrayBounds ==
  [prog |-> <<  >>,
   repl |-> { <<"@","[","6","3","]","=","5">>,
            <<"@","[","6","4","]","=","5">>,
            <<"@","[","-","1","]","=","5">>,
            <<"Z","=","@","[","6","4","]">>,
            <<"Z","=","@","[","-","1","]">>,
            <<"@","[","0","]","=","@","[","6","3","]","+","1">>,
            <<"@","[","@","[","0","]","]","=","Z","+","2">>,
            <<"@","[","1","]","+","=","@","[","7","0","]">> }]

\* flat expressions: 17 operands without nesting, and fewer.
FlatExpr ==
  [prog |-> <<  >>,
   repl |-> { <<"A","=","1","+","1","+","1","+","1","+","1","+","1","+","1","+","1","+","1","+","1","+","1","+","1","+","1","+","1","+","1","+","1","+","1">>,
            <<"A","=","1","+","2">>,
            <<"A","=","(","1","+","2",")","*","3">> }]

\* a loop that never ends by itself.
Forever ==
  [prog |-> << <<"D","O",":","L","O","O","P">> >>,
   repl |-> { <<"P","R","O","G">>,
            <<"R","U","N">>,
            <<"R","E","S","U","M","E">> }]

\* a program that is listed.
Listing ==
  [prog |-> << <<"A","=","4">>,
            <<"1","0"," ","?","\"","a","\"",";","-","5",":","B","=","A"," ","0","x","1","F">>,
            <<"I","F"," ","B"," ","T","H","E","N"," ","C","=","1"," ","'","c">> >>,
   repl |-> { <<"P","R","O","G">>,
            <<"L","I","S","T">> }]

\* lines that are stored, and lines that are not: an empty line, a '' comment, an unknown word.
Storing ==
  [prog |-> << <<"A","=","1">>,
            <<>>,
            <<"'","'","x">>,
            <<"A","B","=","1">>,
            <<"1","0"," ","B","=","2"," ","'","c">>,
            <<" "," "," ">> >>,
   repl |-> { <<"P","R","O","G">> }]

\* a PROG session that stores no line.
StoreNothing ==
  [prog |-> << <<"'","'","x">>,
            <<>> >>,
   repl |-> { <<"P","R","O","G">> }]

\* what the EEPROM may hold at power-on: a snapshot of the program A=A+1
\* written by SAVE or by SAVE !, the same with a header that an other
\* program or an other build left (a magic byte that differs, a length that
\* the program area cannot hold, a length below 2), an erased EEPROM.
SnapshotProgram ==
  LET r == convertInternalCode(Codes(<< "A", "=", "A", "+", "1" >>))
  IN << Len(r.dst) >> \o r.dst \o << 0 >>
Image(m1, m2, len, auto, prog) ==
  [magic1 |-> m1, magic2 |-> m2, progLength |-> len, autoRun |-> auto, prog |-> prog]
Eeprom(held, prog) ==
  CASE held = "erased"     -> EepErased
    [] held = "saved"      -> Image(EEP_MAGIC_1, EEP_MAGIC_2, Len(prog), FALSE, prog)
    [] held = "savedToRun" -> Image(EEP_MAGIC_1, EEP_MAGIC_2, Len(prog), TRUE, prog)
    [] held = "magic2"     -> Image(EEP_MAGIC_1, 255, Len(prog), FALSE, prog)
    [] held = "magic1"     -> Image(255, EEP_MAGIC_2, Len(prog), FALSE, prog)
    [] held = "length0"    -> Image(EEP_MAGIC_1, EEP_MAGIC_2, 0, FALSE, prog)
    [] held = "length1"    -> Image(EEP_MAGIC_1, EEP_MAGIC_2, 1, FALSE, prog)
    [] held = "negative"   -> Image(EEP_MAGIC_1, EEP_MAGIC_2, 0 - 1, FALSE, prog)
    [] held = "tooLong"    -> Image(EEP_MAGIC_1, EEP_MAGIC_2, PROGRAM_AREA_SIZE + 1, FALSE, prog)
Foreign == { "magic2", "magic1", "length0", "length1", "negative", "tooLong" }
SavedToRun == Eeprom("savedToRun", SnapshotProgram)

\* a program is saved, replaced and loaded again.
SaveLoad ==
  [prog |-> << <<"A","=","1">>,
            <<"1","0"," ","B","=","A">> >>,
   repl |-> { <<"P","R","O","G">>,
            <<"S","A","V","E",":","N","E","W">>,
            <<"S","A","V","E"," ","!",":","N","E","W">>,
            <<"L","O","A","D">> }]

\* LOAD of what the EEPROM held at power-on, and of an erased EEPROM.
Snapshot ==
  [prog |-> << <<"B","=","2">> >>,
   repl |-> { <<"P","R","O","G">>,
            <<"L","O","A","D">>,
            <<"S","A","V","E",":","S","A","V","E"," ","0">> },
   eep |-> Foreign \cup { "saved", "erased" }]

\* power-on and RESET with a snapshot to run.
AutoRun ==
  [prog |-> << <<"B","=","2">> >>,
   repl |-> { <<"P","R","O","G">>,
            <<"S","A","V","E"," ","!">>,
            <<"R","E","S","E","T">> },
   eep |-> { "saved", "savedToRun" }]

\* labels: one that two lines carry, one that no line carries.
Labels ==
  [prog |-> << <<"F","O","R"," ","I","=","1"," ","T","O"," ","1",":","G","O","T","O"," ","2","0">>,
            <<"1","0"," ","A","=","A","+","1">>,
            <<"2","0"," ","C","=","C","+","1">>,
            <<"2","0"," ","D","=","D","+","1">>,
            <<"G","O","S","U","B"," ","3","0","0">>,
            <<"G","O","S","U","B"," ","9","9">>,
            <<"3","0","0"," ","R","E","T","U","R","N">> >>,
   repl |-> { <<"P","R","O","G">>,
            <<"R","U","N">>,
            <<"G","O","S","U","B"," ","2","0">> }]

\* FOR loops: a step that overshoots, a step below zero, a start beyond the limit, the default step.
Counting ==
  [prog |-> << <<"F","O","R"," ","I","=","1"," ","T","O"," ","4"," ","S","T","E","P"," ","2",":","A","=","A","+","1",":","N","E","X","T">>,
            <<"F","O","R"," ","J","=","3"," ","T","O"," ","1"," ","S","T","E","P"," ","-","1",":","B","=","B","+","1",":","N","E","X","T">>,
            <<"F","O","R"," ","K","=","5"," ","T","O"," ","1",":","C","=","C","+","1",":","N","E","X","T">>,
            <<"F","O","R"," ","L","=","1"," ","T","O"," ","2",":","D","=","D","+","1",":","N","E","X","T">> >>,
   repl |-> { <<"P","R","O","G">>,
            <<"R","U","N">> }]

\* EXIT out of FOR and DO loops, over loops that follow it inside the loop.
ExitLoop ==
  [prog |-> << <<"F","O","R"," ","I","=","1"," ","T","O"," ","3",":","E","X","I","T",":","F","O","R"," ","J","=","1"," ","T","O"," ","2",":","N","E","X","T",":","A","=","1",":","N","E","X","T",":","B","=","1">>,
            <<"D","O",":","E","X","I","T",":","W","H","I","L","E"," ","0",":","D","O",":","L","O","O","P"," ","W","H","I","L","E"," ","0",":","L","O","O","P",":","C","=","1",":","L","O","O","P",":","D","=","1">>,
            <<"D","O",":","E","=","E","+","1",":","E","X","I","T",":","L","O","O","P"," ","W","H","I","L","E"," ","E","<","2","0","0">>,
            <<"F","=","1">> >>,
   repl |-> { <<"P","R","O","G">>,
            <<"R","U","N">> }]

\* EXIT without a loop to leave.
ExitNothing ==
  [prog |-> << <<"E","N","D">>,
            <<"9"," ","E","X","I","T">> >>,
   repl |-> { <<"P","R","O","G">>,
            <<"E","X","I","T">>,
            <<"G","O","S","U","B"," ","9">>,
            <<"D","O",":","E","X","I","T">> }]

\* WHILE with a condition that holds and one that does not, over loops inside the loop.
WhileLoop ==
  [prog |-> << <<"W","H","I","L","E"," ","A","<","2",":","A","=","A","+","1",":","L","O","O","P">>,
            <<"W","H","I","L","E"," ","0",":","D","O",":","B","=","1",":","L","O","O","P"," ","W","H","I","L","E"," ","B","<","2","0","0",":","W","H","I","L","E"," ","1",":","L","O","O","P",":","C","=","1",":","L","O","O","P",":","D","=","1">>,
            <<"W","H","I","L","E"," ","0",":","E","=","1">> >>,
   repl |-> { <<"P","R","O","G">>,
            <<"R","U","N">>,
            <<"W","H","I","L","E"," ","0",":","F","=","1">> }]

\* IF blocks: each branch taken in turn, blocks inside a branch passed over, a block left open.
Branches ==
  [prog |-> << <<"F","O","R"," ","I","=","0"," ","T","O"," ","3">>,
            <<"I","F"," ","I","=","1"," ","T","H","E","N"," ","A","=","A","+","1">>,
            <<"E","L","S","E","I","F"," ","I","=","2"," ","T","H","E","N"," ","B","=","B","+","1">>,
            <<"E","L","S","E"," ","C","=","C","+","1"," ","E","N","D","I","F">>,
            <<"I","F"," ","I","=","9"," ","T","H","E","N"," ","I","F"," ","1"," ","T","H","E","N"," ","?","\"","E","N","D","I","F","\"">>,
            <<"E","L","S","E"," ","D","=","2"," ","E","N","D","I","F",":","D","=","3">>,
            <<"E","L","S","E"," ","E","=","E","+","1"," ","E","N","D","I","F">>,
            <<"I","F"," ","1"," ","T","H","E","N"," ","I","F"," ","1"," ","T","H","E","N"," ","J","=","J","+","1">>,
            <<"E","L","S","E"," ","J","=","9"," ","E","N","D","I","F",":","K","=","K","+","1">>,
            <<"E","L","S","E"," ","K","=","9"," ","E","N","D","I","F">>,
            <<"I","F"," ","0"," ","T","H","E","N"," ","F","=","1"," ","E","N","D","I","F",":","G","=","G","+","1">>,
            <<"N","E","X","T">>,
            <<"I","F"," ","0"," ","T","H","E","N"," ","H","=","1">>,
            <<"L","=","1">> >>,
   repl |-> { <<"P","R","O","G">>,
            <<"R","U","N">>,
            <<"I","F"," ","0"," ","T","H","E","N"," ","M","=","1"," ","E","L","S","E"," ","M","=","2"," ","E","N","D","I","F">>,
            <<"I","F"," ","0"," ","T","H","E","N"," ","N","=","1">> }]

\* an IF block whose first branch ends with a comment.
BranchNote ==
  [prog |-> << <<"I","F"," ","0"," ","T","H","E","N"," ","A","=","1"," ","'","n">>,
            <<"E","L","S","E"," ","B","=","B","+","1",":","C","=","1">>,
            <<"E","N","D","I","F",":","D","=","1">> >>,
   repl |-> { <<"P","R","O","G">>,
            <<"R","U","N">> }]

\* DATA read in order, from one statement to the next, again after RESTORE, and past the last value.
ReadData ==
  [prog |-> << <<"D","A","T","A"," ","1",",","2","+","3">>,
            <<"R","E","A","D"," ","A",":","R","E","A","D"," ","B">>,
            <<"D","A","T","A"," ","3","0","0">>,
            <<"R","E","A","D"," ","C",":","R","E","S","T","O","R","E",":","R","E","A","D"," ","D">>,
            <<"R","E","A","D"," ","E",":","R","E","A","D"," ","F",":","R","E","A","D"," ","G">>,
            <<"H","=","1">> >>,
   repl |-> { <<"P","R","O","G">>,
            <<"R","U","N">> }]

\* a DATA statement inside an IF block.
ReadInBlock ==
  [prog |-> << <<"I","F"," ","1"," ","T","H","E","N"," ","D","A","T","A"," ","7"," ","E","N","D","I","F">>,
            <<"D","A","T","A"," ","9">>,
            <<"R","E","A","D"," ","A",":","R","E","A","D"," ","B">> >>,
   repl |-> { <<"P","R","O","G">>,
            <<"R","U","N">> }]

\* END and NEW with a loop open, a value read and a break behind them.
Ending ==
  [prog |-> << <<"1","0"," ","D","A","T","A"," ","5">>,
            <<"R","E","A","D"," ","A",":","F","O","R"," ","I","=","1"," ","T","O"," ","2">>,
            <<"B","=","B","+","1",":","@","[","1","]","=","7">>,
            <<"E","N","D",":","C","=","1">>,
            <<"D","=","1">> >>,
   repl |-> { <<"P","R","O","G">>,
            <<"R","U","N">>,
            <<"R","E","S","U","M","E">>,
            <<"E","N","D",":","E","=","1">>,
            <<"N","E","W">> }]

\* lines that print: a sum, fixed-point values, an error.
Printing ==
  [prog |-> <<  >>,
   repl |-> { <<"?"," ","1","2","0","+","3">>,
            <<"?"," ","D","E","C","(","1","2","3","4",",","2","0","5",")">>,
            <<"?"," ","D","E","C","(","1","2","3","4",",","2","0","0",")">>,
            <<"?"," ","D","E","C","(","-","1","2","3","4",",","-","3","0","6",")">>,
            <<"?"," ","D","E","C","(","5",",","2","0","3",")">>,
            <<"?"," ","1","/","0">> }]

\* a program that takes the place of the one that was interrupted.
Replaced ==
  [prog |-> << <<"B","=","B","+","3","0","0">> >>,
   repl |-> { <<"P","R","O","G">>,
            <<"L","O","A","D">>,
            <<"R","E","S","U","M","E">>  },
   eep |-> { "savedToRun" }]

\* loops left at a LOOP WHILE whose literal holds the code of a delimiter.
LoopLiteral ==
  [prog |-> << <<"D","O",":","E","X","I","T",":","L","O","O","P"," ","W","H","I","L","E"," ","A","<","1","0","0",":","B","=","1">>,
            <<"D","O",":","E","X","I","T",":","L","O","O","P"," ","W","H","I","L","E"," ","A","<","5","8",":","C","=","1">>,
            <<"W","H","I","L","E"," ","0",":","L","O","O","P"," ","W","H","I","L","E"," ","A","<","3","9",":","D","=","1">>,
            <<"E","=","1">> >>,
   repl |-> { <<"P","R","O","G">>,
            <<"R","U","N">> }]

Catalogue == << OpenFrames, OpenAtEnd, BreakLoop, ErrorInSub, NewInRun, ProgInRun,
               DeepGosub, DeepDo, DeepFor, DeepWhile, Mismatch, EmptyStack, Logical,
               Comment, FillArea, StaleLine, ContinueFor, DivZero, ArrayBounds, FlatExpr,
               Forever, Listing, MismatchRepl, Storing, StoreNothing, SaveLoad, Snapshot,
               AutoRun, Labels, Counting, ExitLoop, ExitNothing, WhileLoop, Branches,
               BranchNote, ReadData, ReadInBlock, Ending, Printing, Replaced, LoopLiteral >>

\* the sessions made to be interrupted, and all those in which the user
\* sends 0x03 while the interpreter runs or waits at the prompt.
Interrupted == { OpenFrames, BreakLoop, ErrorInSub, DeepGosub, StaleLine, ContinueFor,
                 Forever, Listing }
Interruptible == Interrupted \cup { NewInRun, DivZero, SaveLoad, AutoRun, Counting, ExitLoop,
                                    WhileLoop, Ending, Replaced }

Keys  == { NoKey, CHR_BREAK }
Waits == { NoKey, CHR_BREAK, Ord("5") }
Exts  == { 0, 1, 0 - 1 }
NoInput == [key |-> NoKey, wait |-> NoKey, ext |-> 0]
Inputs == [key : Keys, wait : Waits, ext : Exts]

\* polled is kept for a second break in the REPL, the REPL line after the
\* break and that line's first statement.  follow tells what came after the
\* break: a break in the REPL (1), then a RESUME whose run still goes on (2).
Age(r) ==
  LET resumed(q) == \/ q.age = 3 /\ q.follow = 1 /\ lastOp = ST_RESUME /\ r.errorCode = ERROR_NONE
                    \/ q.follow = 2 /\ r.pc = "run"
  IN [r EXCEPT !.polled = IF @.age < 3 THEN [@ EXCEPT !.age = @ + 1]
                          ELSE IF resumed(@) THEN [age |-> 4, follow |-> 2, ptr |-> @.ptr]
                          ELSE NoPoll]
Again(r) ==
  [r EXCEPT !.polled = IF @.age = 1 THEN [@ EXCEPT !.follow = 1] ELSE @]

\* the control stack as an action finds it: its depth, the kind of its top
\* frame (0 when empty), whether it holds a GOSUB frame; and the variables
\* and the array as it finds them.
Before ==
  [vars |-> globalVariables, arr |-> arrayValiables,
   depth |-> stackPointer,
   top   |-> IF stackPointer = 0 THEN 0 ELSE stacks[stackPointer - 1].type,
   gosub |-> \E i \in 0..(stackPointer - 1) : stacks[i].type = ST_GOSUB]

StartsAs(r) ==
  /\ programArea = r.programArea /\ internalcodeBuff = r.internalcodeBuff
  /\ globalVariables = r.globalVariables /\ arrayValiables = r.arrayValiables
  /\ stacks = r.stacks /\ lineNumber = r.lineNumber
  /\ executionPointer = r.executionPointer /\ errorCode = r.errorCode
  /\ returnRequest = r.returnRequest /\ stackPointer = r.stackPointer
  /\ exprDepth = r.exprDepth /\ dataReadPointer = r.dataReadPointer
  /\ resumePointer = r.resumePointer /\ resumeLineNumber = r.resumeLineNumber
  /\ progLength = r.progLength /\ eep = r.eep /\ progPtr = r.progPtr
  /\ remain = r.remain /\ pc = r.pc /\ exit = r.exit /\ escape = r.escape
  /\ overrun = r.overrun /\ polled = r.polled /\ lastOp = r.lastOp /\ out = r.out
  /\ divz = r.divz /\ idx = r.idx

\* power-on: the EEPROM is erased unless the scenario says what it holds;
\* a 0x03 may arrive while basicInit waits before it runs a snapshot.
EepAtPowerOn(c) == IF "eep" \in DOMAIN c THEN c.eep ELSE { "erased" }
PowerOn(held, key) ==
  Report(basicInit([eep |-> Eeprom(held, SnapshotProgram), io |-> [NoInput EXCEPT !.wait = key],
                    used |-> FALSE, escape |-> FALSE, lastOp |-> 0, out |-> << >>,
                    divz |-> FALSE, idx |-> << >>]))
Boot ==
  /\ scen \in 1..Len(Catalogue)
  /\ fed = 0 /\ nrepl = 0
  /\ before = [vars |-> [i \in 0..(VARIABLE_NUM - 1) |-> 0],
               arr |-> [i \in 0..(ARRAY_INDEX_NUM - 1) |-> 0],
               depth |-> 0, top |-> 0, gosub |-> FALSE]
  /\ \E held \in EepAtPowerOn(Catalogue[scen]), key \in { NoKey, CHR_BREAK } :
       LET start(r) == /\ key = CHR_BREAK => r.used
                       /\ nbrk = IF key = CHR_BREAK THEN 1 ELSE 0
                       /\ StartsAs(r)
       IN start(PowerOn(held, key))

\* no line is probed in a console session.
Idle == [stage |-> "idle"]
Init == Boot /\ probe = Idle

\* the user types a line at the REPL prompt.
ReplLine ==
  /\ pc = "repl" /\ ~overrun /\ nrepl < MaxRepl
  /\ \E line \in Catalogue[scen].repl :
       Becomes(basicMain(Age(M(NoInput)), Codes(line)))
  /\ nrepl' = nrepl + 1 /\ before' = Before
  /\ UNCHANGED << scen, fed, nbrk, probe >>

\* the user sends 0x03 at the REPL prompt.
ReplBreak ==
  /\ pc = "repl" /\ ~overrun /\ nbrk < MaxBreaks /\ Catalogue[scen] \in Interruptible
  /\ Becomes(basicMainBreak(Again(Age(M(NoInput)))))
  /\ nbrk' = nbrk + 1 /\ before' = Before
  /\ UNCHANGED << scen, fed, nrepl, probe >>

\* the executor polls the console and dispatches one statement.
Step ==
  LET turn(io, sent, r) ==
        /\ sent => nbrk < MaxBreaks /\ Catalogue[scen] \in Interruptible
        /\ ~r.blocked
        /\ r.used \/ (io.wait = NoKey /\ io.ext = 0)
        /\ Becomes(r)
        /\ nbrk' = IF sent THEN nbrk + 1 ELSE nbrk
      poll(io, r) == turn(io, io.key = CHR_BREAK \/ (r.used /\ io.wait = CHR_BREAK), r)
  IN /\ pc = "run"
     /\ \E io \in Inputs : poll(io, Dispatch(Age(M(io))))
     /\ before' = Before
     /\ UNCHANGED << scen, fed, nrepl, probe >>

\* the user types the next line of the scenario's program at the PROG
\* prompt, and # after the last.
ProgLine ==
  LET type(P) ==
        /\ Becomes(AfterStatement(ProgInput(Age(M(NoInput)),
                                            IF fed < Len(P) THEN Codes(P[fed + 1])
                                            ELSE << CHR_PROG_TERM >>)))
        /\ fed' = IF fed < Len(P) THEN fed + 1 ELSE 0
  IN /\ pc = "prog" /\ ~overrun
     /\ type(Catalogue[scen].prog)
     /\ before' = Before
     /\ UNCHANGED << scen, nrepl, nbrk, probe >>

Next == ReplLine \/ ReplBreak \/ Step \/ ProgLine

Spec == Init /\ [][Next]_vars

(***************************************************************************)
(* The tokenizer, PROG and LIST as functions of one raw line.  The line is  *)
(* made of at most MaxItems pieces, or is A=<literal> for a value of        *)
(* LitValues written in decimal or in hexadecimal.                          *)
(***************************************************************************)
MaxItems == 4
Pieces == { <<"A">>, <<"B">>, <<" ">>, <<"1">>, <<"4">>, <<"=">>, <<"\"">>, <<"'">>,
            <<"0","x","1","F">> }
RECURSIVE LinesOf(_)
LinesOf(n) ==
  IF n = 0 THEN { << >> }
  ELSE LET shorter == LinesOf(n - 1)
       IN shorter \cup { l \o piece : l \in shorter, piece \in Pieces }
LitValues == { 0, 4, 9, 10, 127, 128, 255, 256, 32767, 0 - 1, 0 - 9, 0 - 128, 0 - 129,
               0 - 32768 }
LiteralText(val, hex) ==
  IF hex THEN << Ord("0"), Ord("x") >> \o int2str(val, FORM_HEX, 0) ELSE printVal(val)
NoLit == [is |-> FALSE, val |-> 0, hex |-> FALSE]
NoForm == [is |-> FALSE, e |-> 0, w |-> 0]
NoLoop == [is |-> FALSE, from |-> 0, to |-> 0, step |-> 0, frame |-> ZeroFrame]
Typed(src, lit, sign) ==
  [stage |-> "typed", src |-> src, lit |-> lit, sign |-> sign, form |-> NoForm,
   loop |-> NoLoop, err |-> ERROR_NONE, code |-> << >>, text |-> << >>, again |-> << >>,
   val |-> 0, next |-> 0]

\* ? DEC(e,w): the values and the widths with a decimal point.
FormValues == { 0, 5, 12, 1234, 32767 }
MaxPoint == 3
MaxWidth == 6
FormWidths == { 100 * d + n : d \in 1..MaxPoint, n \in 0..MaxWidth }
Number(e, w, text) ==
  [Typed(Codes(<< "?", " ", "D", "E", "C", "(" >>) \o text[e, FALSE]
           \o Codes(<< "," >>) \o text[w, FALSE] \o Codes(<< ")" >>), NoLit, [is |-> FALSE])
     EXCEPT !.stage = "number", !.form = [is |-> TRUE, e |-> e, w |-> w]]

\* A=<pre><sign><literal><post>: what stands before the sign, whether that
\* makes the sign binary, and the value the line gives to A for the signed
\* literal v (B and @[1] are 0 when the line runs).
SignValues == { 0, 3, 9, 10, 200, 32767 }
Prefix(kind, dec, hex) ==
  CASE kind = "value"    -> [text |-> dec, post |-> << >>, binary |-> TRUE]
    [] kind = "hex"      -> [text |-> hex, post |-> << >>, binary |-> TRUE]
    [] kind = "variable" -> [text |-> Codes(<< "B" >>), post |-> << >>, binary |-> TRUE]
    [] kind = "paren"    -> [text |-> Codes(<< "(" >>) \o dec \o Codes(<< ")" >>),
                             post |-> << >>, binary |-> TRUE]
    [] kind = "array"    -> [text |-> Codes(<< "@", "[", "1", "]" >>), post |-> << >>,
                             binary |-> TRUE]
    [] kind = "none"     -> [text |-> << >>, post |-> << >>, binary |-> FALSE]
    [] kind = "times"    -> [text |-> dec \o Codes(<< "*" >>), post |-> << >>,
                             binary |-> FALSE]
    [] kind = "open"     -> [text |-> Codes(<< "(" >>), post |-> Codes(<< ")" >>),
                             binary |-> FALSE]
    [] kind = "minus"    -> [text |-> dec \o Codes(<< " ", "-", " " >>),
                             post |-> << >>, binary |-> FALSE]
PrefixKinds == { "value", "hex", "variable", "paren", "array", "none", "times", "open", "minus" }
Signed(g, text) ==
  LET line(pre) ==
        Typed(Codes(<< "A", "=" >>) \o pre.text
                \o << IF g.plus THEN Ord("+") ELSE Ord("-") >>
                \o (IF g.gap THEN << ASCII_SP >> ELSE << >>)
                \o text[g.b, FALSE] \o pre.post,
              NoLit, g)
  IN line(Prefix(g.kind, text[g.a, FALSE], text[g.a, TRUE]))
Signs ==
  { g \in [is : { TRUE }, kind : PrefixKinds, a : SignValues, b : SignValues,
           plus : BOOLEAN, gap : BOOLEAN] :
      /\ g.kind \in { "variable", "array", "none", "open" } => g.a = 0
      /\ g.kind = "minus" => ~g.plus }
NoSign == [is |-> FALSE]
\* FOR A=a TO b STEP s:NEXT: the starts, the limits and the steps; the
\* loops with the steps 1 and -1 are those of at most MaxTurns turns.
MaxTurns == 4
LoopStarts == { 0, 1, 32767, 0 - 32768 }
LoopLimits == { 0, 3, 16384, 32767, 0 - 32768 }
LoopSteps == { 1, 0 - 1, 8192, 0 - 8192, 16384, 0 - 16384, 24576, 0 - 32768 }
LoopOf(a, b, st, text) ==
  [Typed(Codes(<< "F", "O", "R", " ", "A", "=" >>) \o text[a, FALSE]
           \o Codes(<< " ", "T", "O", " " >>) \o text[b, FALSE]
           \o Codes(<< " ", "S", "T", "E", "P", " " >>) \o text[st, FALSE]
           \o Codes(<< ":", "N", "E", "X", "T" >>), NoLit, [is |-> FALSE])
     EXCEPT !.stage = "loop",
            !.loop = [is |-> TRUE, from |-> a, to |-> b, step |-> st, frame |-> ZeroFrame]]
Texts ==
  [v \in LitValues \cup SignValues \cup FormValues \cup FormWidths \cup LoopStarts
          \cup LoopLimits \cup LoopSteps, hex \in BOOLEAN |->
     LiteralText(v, hex)]
Loops ==
  LET all(text) ==
        { LoopOf(l.from, l.to, l.step, text) :
            l \in { t \in [from : LoopStarts, to : LoopLimits, step : LoopSteps] :
                      t.step \in { 1, 0 - 1 } =>
                        (t.to - t.from) \in (0 - MaxTurns)..MaxTurns } }
  IN all(Texts)
Probes ==
  LET all(text) ==
        { Typed(Codes(l), NoLit, NoSign) : l \in LinesOf(MaxItems) }
        \cup { Typed(<< Ord("A"), Ord("=") >> \o text[v, h],
                      [is |-> TRUE, val |-> v, hex |-> h], NoSign) :
                  v \in LitValues, h \in BOOLEAN }
        \cup { Signed(g, text) : g \in Signs }
        \cup { Number(e, w, text) : e \in FormValues, w \in FormWidths }
  IN all(Texts)

\* the machine at the PROG prompt with an empty program area (proc_prog),
\* and with one stored line.
AtProgPrompt ==
  [M(NoInput) EXCEPT !.remain = PROGRAM_AREA_SIZE - 3, !.progLength = 0, !.progPtr = 0,
                     !.inProg = TRUE]
Holding(code) ==
  [AtProgPrompt EXCEPT !.programArea =
     [i \in 0..(PROGRAM_AREA_SIZE - 1) |->
        IF i = 0 THEN Len(code) ELSE IF i <= Len(code) THEN code[i] ELSE ST_EOL]]

TokInit == Boot /\ scen = 1 /\ probe \in Probes
Rest == << machine, exit, escape, overrun, polled, lastOp, out, divz, idx, scen, fed, nrepl,
          nbrk, before >>

\* the line is typed at the PROG prompt.
ProgStore ==
  LET keep(s1, stored) ==
        probe' = [probe EXCEPT !.stage = IF stored THEN "stored" ELSE "refused",
                               !.err = s1.errorCode,
                               !.code = IF stored
                                          THEN [i \in 1..s1.programArea[0] |-> s1.programArea[i]]
                                          ELSE << >>]
      type(s1) == keep(s1, s1.errorCode = ERROR_NONE /\ s1.progLength > 0)
  IN /\ probe.stage = "typed" /\ ~probe.sign.is
     /\ type(ProgInput(AtProgPrompt, probe.src))
     /\ UNCHANGED Rest

\* LIST prints the stored line.
List ==
  /\ probe.stage = "stored"
  /\ probe' = [probe EXCEPT !.stage = "listed",
                            !.text = listLine(Holding(probe.code), 1, TRUE, << >>).text]
  /\ UNCHANGED Rest

\* the listed text goes through the tokenizer.
Retokenize ==
  LET keep(r) == probe' = [probe EXCEPT !.stage = "again",
                                        !.again = [err |-> r.err, code |-> r.dst]]
  IN /\ probe.stage = "listed"
     /\ keep(convertInternalCode(probe.text))
     /\ UNCHANGED Rest

\* get_dec_val reads the literal of the stored line A=<literal>.
Decode ==
  LET keep(r) == probe' = [probe EXCEPT !.stage = "decoded", !.val = r.v, !.next = r.p]
  IN /\ probe.stage = "stored" /\ probe.lit.is
     /\ keep(get_dec_val(Holding(probe.code), 3))
     /\ UNCHANGED Rest

\* the line is typed at the prompt of the REPL and its statement executed.
Evaluate ==
  LET keep(s1) ==
        probe' = [probe EXCEPT !.stage = "evaluated", !.err = s1.errorCode,
                               !.code = [i \in 1..s1.internalcodeBuff[0] |->
                                           s1.internalcodeBuff[i]],
                               !.val = s1.globalVariables[0]]
      run(s1) == keep(Report(IF s1.pc = "run" THEN Dispatch(s1) ELSE s1))
  IN /\ probe.stage = "typed" /\ probe.sign.is
     /\ run(basicMain(M(NoInput), probe.src))
     /\ UNCHANGED Rest

\* the line ? DEC(e,w) is typed at the prompt of the REPL and its statement
\* executed: what it writes to the console.
Format ==
  LET keep(s1) == probe' = [probe EXCEPT !.stage = "printed", !.err = s1.errorCode,
                                         !.text = s1.out]
      run(s1) == keep(Report(IF s1.pc = "run" THEN Dispatch(s1) ELSE s1))
  IN /\ probe.stage = "number"
     /\ run(basicMain(M(NoInput), probe.src))
     /\ UNCHANGED Rest

TokNext == ProgStore \/ List \/ Retokenize \/ Decode \/ Evaluate \/ Format
TokSpec == TokInit /\ [][TokNext]_vars

\* a 0x03 that is to come is received while the program is still running:
\* the executor's loop (interpreterMain's while(true)) polls the console
\* before every statement and the waits poll it again (delayMs, proc_pause).
BreakSeen == pc = "run" /\ nbrk < MaxBreaks /\ nbrk' = nbrk + 1
\* the sessions of LiveSpec are those of the scenarios made to be interrupted.
LiveInit == Init /\ Catalogue[scen] \in Interrupted
LiveSpec == LiveInit /\ [][Next]_vars /\ WF_nbrk(BreakSeen)

(***************************************************************************)
(* FOR ... NEXT by itself: the line FOR A=a TO b STEP s:NEXT is typed at    *)
(* the prompt of the REPL, FOR is executed, and NEXT is executed as often  *)
(* as it goes back.  The executor dispatches the next statement whenever   *)
(* one is there, so NEXT is executed again when it has gone back.          *)
(***************************************************************************)
LoopInit == Boot /\ scen = 1 /\ probe \in Loops

\* the line is typed and FOR is executed.
LoopBegins ==
  LET keep(s1) ==
        probe' = [probe EXCEPT !.stage = IF s1.errorCode = ERROR_NONE /\ s1.stackPointer = 1
                                           THEN "looping" ELSE "refused",
                               !.err = s1.errorCode,
                               !.code = [i \in 1..s1.internalcodeBuff[0] |->
                                           s1.internalcodeBuff[i]],
                               !.val = s1.globalVariables[0],
                               !.loop.frame = s1.stacks[0]]
      run(s1) == keep(Report(IF s1.pc = "run" THEN Dispatch(s1) ELSE s1))
  IN /\ probe.stage = "loop"
     /\ run(basicMain(M(NoInput), probe.src))
     /\ UNCHANGED Rest

\* the machine in front of the delimiter behind NEXT, with the FOR frame on
\* the stack and A as the loop has left it.
AtNext ==
  [basicMainEntry(M(NoInput)) EXCEPT
                     !.internalcodeBuff =
                       [i \in 0..(CODE_BUFF_SIZE - 1) |->
                          IF i = 0 THEN Len(probe.code)
                          ELSE IF i <= Len(probe.code) THEN probe.code[i] ELSE ST_EOL],
                     !.executionPointer = CodeBase + Len(probe.code),
                     !.stacks[0] = probe.loop.frame, !.stackPointer = 1,
                     !.globalVariables[0] = probe.val]

\* NEXT is executed.
NextTurn ==
  LET keep(s1) ==
        probe' = [probe EXCEPT !.stage = IF s1.errorCode = ERROR_NONE /\ s1.stackPointer = 1
                                           THEN "looping" ELSE "fell",
                               !.err = s1.errorCode,
                               !.val = s1.globalVariables[0],
                               !.next = s1.executionPointer]
  IN /\ probe.stage = "looping"
     /\ keep(proc_next(AtNext))
     /\ UNCHANGED Rest

LoopNext == LoopBegins \/ NextTurn
LoopSpec == LoopInit /\ [][LoopNext]_vars /\ WF_probe(NextTurn)

(***************************************************************************)
(* The properties.                                                         *)
(***************************************************************************)
Returned(how) == pc = "repl" /\ exit = how
NormalEnd == pc = "repl" /\ exit \in {"off", "endreq"} /\ lineNumber # 0

\* C1: when a run of the stored program ends normally (it runs off the end
\* of the program, or executes END in Run mode) the stack depth is 0 at the
\* return to the REPL, whatever frames were open.
C1_StackBalance == NormalEnd => stackPointer = 0
C1_Witness == NormalEnd /\ exit = "off" /\ before.depth >= 3 /\ stackPointer = 0

\* C2: a poll that receives 0x03 in Run mode stores the pointer and line of
\* that moment in the resume snapshot, sets Break and returns to the REPL at
\* once; a RESUME typed next continues at that pointer and line with the
\* variables, the array and the control stack of that moment.
C2_BreakResume ==
  /\ polled.age = 0 =>
       /\ Returned("break") /\ errorCode = ERROR_BREAK
       /\ resumePointer = polled.ptr /\ resumeLineNumber = polled.line
  /\ (polled.age = 2 /\ lastOp = ST_RESUME /\ errorCode = ERROR_NONE) =>
       /\ executionPointer = polled.ptr /\ lineNumber = polled.line
       /\ globalVariables = polled.globalVariables
       /\ arrayValiables = polled.arrayValiables
       /\ stacks = polled.stacks /\ stackPointer = polled.stackPointer
C2_Witness ==
  /\ polled.age = 2 /\ lastOp = ST_RESUME /\ errorCode = ERROR_NONE
  /\ pc = "run" /\ lineNumber = polled.line /\ polled.stackPointer > 0

\* C3: after an error other than Break has ended execution, the resume
\* snapshot is empty, also when an earlier Break had filled it.
C3_ErrorClearsResume == Returned("error") => resumePointer = NULL

\* C4: after an error other than Break has ended execution, the control
\* stack is empty when the REPL prompt reappears.
C4_ErrorClearsStack == Returned("error") => stackPointer = 0

\* C5: the program area and progLength are never written while a stored
\* program is running: PROG, NEW and LOAD refuse in Run mode.
C5_NoMutationInRun ==
  [][(pc = "run" /\ lineNumber # 0) =>
       (programArea' = programArea /\ progLength' = progLength)]_vars

\* C6: && and || consume both operands whatever the left one is: an
\* assignment whose right side is a well-formed logical expression ends at
\* the end of its line without an error.  (Every line of the scenario Logical
\* is such an assignment.)
C6_BothOperands ==
  (Catalogue[scen] = Logical /\ lastOp = Ord("A")) =>
    (errorCode = ERROR_NONE /\ internalcodeBuff[executionPointer - CodeBase] = ST_EOL)

\* C7: the stack depth stays within 0..STACK_NUM; GOSUB, FOR, DO and a true
\* WHILE met at depth STACK_NUM raise Stack overflow and push nothing (a WHILE
\* pushes nothing at that depth whatever its condition; every WHILE of the
\* scenario DeepWhile has a true condition).
Pushers == { ST_GOSUB, ST_FOR, ST_DO }
C7_StackBounds ==
  /\ stackPointer \in 0..STACK_NUM
  /\ (lastOp \in Pushers /\ before.depth = STACK_NUM) =>
       (errorCode = ERROR_STACK /\ stackPointer = STACK_NUM)
  /\ (lastOp = ST_WHILE /\ before.depth = STACK_NUM) => stackPointer = STACK_NUM
  /\ (Catalogue[scen] = DeepWhile /\ lastOp = ST_WHILE /\ before.depth = STACK_NUM) =>
       errorCode = ERROR_STACK
C7_Witness ==
  lastOp = ST_GOSUB /\ before.depth = STACK_NUM /\ errorCode = ERROR_STACK
  /\ stackPointer = STACK_NUM

\* C8 as claimed: NEXT, LOOP and RETURN that meet a top frame of another
\* kind (or no frame) raise Unexpected Next, Loop and Return.
C8_TopMustMatch ==
  /\ (lastOp = ST_NEXT /\ before.top # ST_FOR) => errorCode = ERROR_UXNEXT
  /\ (lastOp = ST_LOOP /\ before.top # ST_DO) => errorCode = ERROR_UXLOOP
  /\ (lastOp = ST_RETURN /\ before.top # ST_GOSUB) => errorCode = ERROR_UXRETURN

\* C8 amended: NEXT and LOOP as claimed; RETURN raises Unexpected Return
\* only when the stack holds no GOSUB frame at all, and otherwise returns,
\* dropping the frames above the nearest GOSUB frame.
C8_TopMustMatchButReturn ==
  /\ (lastOp = ST_NEXT /\ before.top # ST_FOR) =>
       (errorCode = ERROR_UXNEXT /\ Returned("error"))
  /\ (lastOp = ST_LOOP /\ before.top # ST_DO) =>
       (errorCode = ERROR_UXLOOP /\ Returned("error"))
  /\ (lastOp = ST_RETURN /\ ~before.gosub) =>
       (errorCode = ERROR_UXRETURN /\ Returned("error"))
  /\ (lastOp = ST_RETURN /\ before.gosub) =>
       (errorCode = ERROR_NONE /\ stackPointer < before.depth)
C8_Witness ==
  lastOp = ST_RETURN /\ before.top = ST_FOR /\ before.gosub /\ errorCode = ERROR_NONE
  /\ stackPointer = before.depth - 2

\* C9: no byte that PROG writes lies outside the program area.
C9_ProgInsideArea == ~overrun

\* C10: no forward scan reads beyond the zero terminator of the program or
\* beyond the EOL of the line in the code buffer.
C10_ScansInside == ~escape

\* the 1-based position of the stored line that holds the address ptr (0 when
\* no line does); a line is its length byte, its codes and its EOL.
RECURSIVE LineFrom(_, _, _)
LineFrom(p, n, ptr) ==
  IF p >= PROGRAM_AREA_SIZE THEN 0
  ELSE IF programArea[p] = ST_EOL THEN 0
  ELSE IF ptr <= p + programArea[p] THEN n
  ELSE LineFrom(p + programArea[p] + 1, n + 1, ptr)
LineOf(ptr) == LineFrom(0, 1, ptr)

\* C11: while the stored program runs, and when it stops with an error or a
\* break, lineNumber is the position of the stored line that holds
\* executionPointer.
C11_LineTracksPointer ==
  (lineNumber # 0 /\ (pc = "run" \/ Returned("error") \/ Returned("break"))) =>
    lineNumber = LineOf(executionPointer)

\* the byte at the address p of the machine as it stands.
Byte(p) == IF InCode(p) THEN internalcodeBuff[p - CodeBase] ELSE programArea[p]

\* C12: CONTINUE met with a FOR frame on top goes to the matching NEXT: when
\* it has been dispatched without error the next thing executed is that NEXT
\* (executionPointer is at the NEXT code or just past it), so nothing between
\* the two is executed, and the stack depth is what it was.
C12_ContinueReachesNext ==
  (lastOp = ST_CONTINUE /\ before.top = ST_FOR /\ errorCode = ERROR_NONE) =>
    /\ Byte(executionPointer) = ST_NEXT \/ Byte(executionPointer - 1) = ST_NEXT
    /\ stackPointer = before.depth

StartsWith(text, head) == Len(text) >= Len(head) /\ SubSeq(text, 1, Len(head)) = head

\* C13: a division or modulo by 0, in an expression or in /= and %=, ends
\* the statement with Division by 0; no variable and no array element has
\* changed, and a PRINT has printed nothing for the failing item: the error
\* message follows at once, or follows the 5 that is the only item before a
\* failing one in the scenario DivZero.
C13_DivZeroNoEffect ==
  divz =>
    /\ errorCode = ERROR_DIVZERO /\ Returned("error")
    /\ globalVariables = before.vars /\ arrayValiables = before.arr
    /\ lastOp = ST_PRINT =>
         \E items \in { << >>, << Ord("5") >> } :
           StartsWith(out, items \o << 10, 13 >> \o Codes(errorSting[ERROR_DIVZERO + 1]))
C13_Witness ==
  /\ divz /\ errorCode = ERROR_DIVZERO /\ lastOp = Ord("A") /\ globalVariables[0] = 7

\* C14: an array access whose index is below 0 or not below ARRAY_INDEX_NUM
\* ends the statement with Array index over and changes no variable and no
\* array element; an assignment to an array element changes none of A..Z and
\* at most one element, whose index is one the statement evaluated.
InRange(i) == i >= 0 /\ i < ARRAY_INDEX_NUM
Changed == { j \in 0..(ARRAY_INDEX_NUM - 1) : arrayValiables[j] # before.arr[j] }
C14_ArrayBounds ==
  /\ (\E k \in 1..Len(idx) : ~InRange(idx[k])) =>
       /\ errorCode = ERROR_ARRAY /\ Returned("error")
       /\ globalVariables = before.vars /\ arrayValiables = before.arr
  /\ lastOp = ST_ARRAY =>
       /\ globalVariables = before.vars
       /\ Cardinality(Changed) <= 1
       /\ \A j \in Changed : \E k \in 1..Len(idx) : idx[k] = j
C14_Witness ==
  /\ lastOp = ST_ARRAY /\ idx = << ARRAY_INDEX_NUM >> /\ errorCode = ERROR_ARRAY
  /\ before.arr[ARRAY_INDEX_NUM - 1] = 5

\* C15: the evaluator restores exprDepth: a statement that ends without
\* error leaves exprDepth as the executor set it before the statement (0),
\* and Expr too deep is not raised by an expression that is not nested (no
\* expression of the scenario FlatExpr is nested deeper than 2).
C15_DepthRestored ==
  /\ (lastOp # 0 /\ errorCode = ERROR_NONE) => exprDepth = 0
  /\ Catalogue[scen] = FlatExpr => errorCode # ERROR_TOODEEP

\* C16: two consecutive breaks behave as one.  A 0x03 received in the REPL
\* right after a Run-mode break (lineNumber = 0) leaves the resume snapshot
\* at the pointer and line of the first break; a RESUME typed next continues
\* at that pointer and line; and a break polled in the resumed run replaces
\* the snapshot with the pointer and line of the new poll.
C16_DoubleBreak ==
  /\ (polled.age = 1 /\ polled.follow = 1) =>
       /\ Returned("break") /\ lineNumber = 0
       /\ resumePointer = polled.ptr /\ resumeLineNumber = polled.line
  /\ (polled.age = 3 /\ polled.follow = 1 /\ lastOp = ST_RESUME /\ errorCode = ERROR_NONE) =>
       /\ executionPointer = polled.ptr /\ lineNumber = polled.line
  /\ (polled.age = 0 /\ polled.follow = 3) =>
       /\ resumePointer = polled.ptr /\ resumeLineNumber = polled.line
C16_Witness ==
  /\ polled.age = 0 /\ polled.follow = 3 /\ polled.was # polled.ptr
  /\ resumePointer = polled.ptr /\ Returned("break")

\* C17: the executor polls once before each statement it dispatches: an
\* action in which a 0x03 is received ends in the Break state at the REPL,
\* with at most the statement in progress executed; and a running program
\* to which a 0x03 is still to come leaves the executor, a loop that never
\* ends by itself (DO:LOOP) in the Break state at the REPL.
Sent == nbrk' = nbrk + 1
C17_BreakReaches ==
  /\ [][Sent => (exit' = "break" /\ errorCode' = ERROR_BREAK /\ pc' = "repl")]_vars
  /\ (pc = "run" /\ nbrk < MaxBreaks) ~> (pc # "run")
  /\ (Catalogue[scen] = Forever /\ pc = "run" /\ lineNumber # 0 /\ nbrk < MaxBreaks)
       ~> (Returned("break") /\ errorCode = ERROR_BREAK)
C17_Witness ==
  /\ Catalogue[scen] = Forever /\ Returned("break") /\ errorCode = ERROR_BREAK
  /\ polled.age = 0 /\ polled.line = 1 /\ stackPointer > 0

\* C18: for every raw line that PROG accepts and stores, the text LIST
\* prints for the line goes through the tokenizer without error and gives
\* the stored bytecode again.
C18_ListRoundTrip ==
  probe.stage = "again" =>
    /\ probe.again.err = ERROR_NONE
    /\ probe.again.code = probe.code

\* the first alphabetic run of two or more letters starts at src[i], matches
\* no keyword, and only blanks, = and single letters come before it.
Single(src, j) ==
  isupper(src[j]) /\ ~isupper(At(src, j + 1)) /\ (j = 1 \/ ~isupper(src[j - 1]))
UnknownWordAt(src, i) ==
  /\ isupper(src[i]) /\ isupper(At(src, i + 1)) /\ (i = 1 \/ ~isupper(src[i - 1]))
  /\ \A index \in 1..Len(keyWordList) : ~KwMatches(src, i, Codes(keyWordList[index]))
  /\ \A j \in 1..(i - 1) : src[j] = ASCII_SP \/ src[j] = Ord("=") \/ Single(src, j)
UnknownWord == \E i \in 1..Len(probe.src) : UnknownWordAt(probe.src, i)
Tokenized == probe.stage \in { "stored", "refused" }

\* C19 as stated: a line whose first alphabetic run of two or more letters
\* matches no keyword is tokenized without error, the first letter of the
\* run as a variable.
C19_UnknownWordIsVariable ==
  (Tokenized /\ UnknownWord) => probe.err = ERROR_NONE

\* C19: a line whose first alphabetic run of two or more letters matches no
\* keyword is refused with Syntax error, and PROG stores nothing of it.
C19_UnknownWordRefused ==
  (Tokenized /\ UnknownWord) =>
    /\ probe.stage = "refused" /\ probe.err = ERROR_SYNTAX /\ probe.code = << >>
C19_Witness ==
  /\ probe.stage = "refused" /\ probe.err = ERROR_SYNTAX
  /\ probe.src = << Ord("A"), Ord("B"), Ord("="), Ord("1") >>

\* the encoding of the literal in the stored line A=<literal>.
Encoding == SubSeq(probe.code, 3, Len(probe.code) - 1)
Fits8(v) == v >= 0 - 128 /\ v <= 127
Encoded(inline, v, hex) ==
  /\ Len(probe.code) >= 4
  /\ probe.code[1] = Ord("A") /\ probe.code[2] = Ord("=")
  /\ probe.code[Len(probe.code)] = ST_EOL
  /\ Len(Encoding) = IF inline THEN 1 ELSE IF Fits8(v) THEN 2 ELSE 3
  /\ Encoding[1] = IF inline THEN Ord("0") + v
                    ELSE (IF hex THEN ST_VAL_HEX ELSE ST_VAL_DEC) + (Len(Encoding) - 2)
  /\ probe.val = v /\ probe.next = 3 + Len(Encoding)

\* C20 as stated: every literal, decimal or hexadecimal, has the smallest
\* encoding (the inline digit for 0..9, one operand byte for -128..127, two
\* otherwise) and get_dec_val reads its value back.
C20_SmallestEncoding ==
  probe.stage = "decoded" =>
    Encoded(probe.lit.val >= 0 /\ probe.lit.val <= 9, probe.lit.val, probe.lit.hex)

\* C20: a decimal literal 0..9 is the inline digit; every other literal,
\* and a hexadecimal literal 0..9 too, is a tagged value with one operand
\* byte for -128..127 and two otherwise, the tag keeping the base; and
\* get_dec_val reads the value back.
C20_EncodingKeepsBase ==
  probe.stage = "decoded" =>
    Encoded(~probe.lit.hex /\ probe.lit.val >= 0 /\ probe.lit.val <= 9,
            probe.lit.val, probe.lit.hex)
C20_Witness ==
  /\ probe.stage = "decoded" /\ probe.lit.hex /\ probe.lit.val = 4
  /\ probe.code = << Ord("A"), Ord("="), ST_VAL_HEX, 4, ST_EOL >> /\ probe.val = 4

\* ---------------------------------------------------------------------------
Evaluated == probe.stage = "evaluated" /\ probe.sign.is
SignedLiteral == IF probe.sign.plus THEN probe.sign.b ELSE Wrap(0 - probe.sign.b)
LeftOperand == IF probe.sign.kind \in { "value", "hex", "paren" } THEN probe.sign.a ELSE 0
BeforeSign ==
  LET head(t) == SubSeq(t.dst, 1, Len(t.dst) - 1)
      code(pre) == head(convertInternalCode(Codes(<< "A", "=" >>) \o pre.text))
  IN code(Prefix(probe.sign.kind, printVal(probe.sign.a), LiteralText(probe.sign.a, TRUE)))
SignIsBinary == Prefix(probe.sign.kind, << >>, << >>).binary
FromSign(head) == SubSeq(probe.code, Len(head) + 1, Len(probe.code))
AfterLiteral == Codes(IF probe.sign.kind = "open" THEN << ")" >> ELSE << >>) \o << ST_EOL >>
SignKept(head) ==
  FromSign(head) = << IF probe.sign.plus THEN Ord("+") ELSE Ord("-") >>
                       \o set_dec_val(ST_VAL_DEC, probe.sign.b) \o AfterLiteral
SignFolded(head) == FromSign(head) = set_dec_val(ST_VAL_DEC, SignedLiteral) \o AfterLiteral
Folding(head) ==
  /\ probe.err = ERROR_NONE
  /\ SubSeq(probe.code, 1, Len(head)) = head
  /\ SignIsBinary => SignKept(head) /\ probe.val = Wrap(LeftOperand + SignedLiteral)
  /\ probe.sign.kind \in { "none", "open" } => SignFolded(head) /\ probe.val = SignedLiteral
  /\ probe.sign.kind = "times" =>
        SignFolded(head) /\ probe.val = Wrap(probe.sign.a * SignedLiteral)
  /\ probe.sign.kind = "minus" =>
        SignKept(head) /\ probe.val = Wrap(probe.sign.a + probe.sign.b)

\* C21: a "+" or "-" directly head a decimal literal is folded into the
\* literal only when it is unary: after a value, a variable, ")" or "]" the
\* sign stays in the code as an operator byte followed by the unsigned literal,
\* and the line computes left + (signed literal) in the machine's integers; at
\* the start of an expression, after "*" or after "(" the code holds the
\* signed literal and no sign byte; in "a - -b" the line computes a + b.
C21_SignFolding == Evaluated => Folding(BeforeSign)
C21_Witness ==
  /\ Evaluated /\ probe.sign.kind = "value" /\ ~probe.sign.plus
  /\ probe.sign.a = 3 /\ probe.sign.b = 10 /\ probe.val = Wrap(0 - 7) /\ SignKept(BeforeSign)

\* ---------------------------------------------------------------------------
StoredLine(line) ==
  LET r == convertInternalCode(Codes(line))
  IN IF r.err = ERROR_NONE /\ r.len > 0 THEN << Len(r.dst) >> \o r.dst ELSE << >>
RECURSIVE StoredLines(_, _)
StoredLines(P, n) ==
  IF n = 0 THEN << >> ELSE StoredLines(P, n - 1) \o StoredLine(P[n])
StoredProgram == StoredLines(Catalogue[scen].prog, Len(Catalogue[scen].prog)) \o << 0 >>
ProgEnds == pc = "prog" /\ pc' = "repl"
Holds(area, stored) == [i \in 1..Len(stored) |-> area[i - 1]] = stored
AreaHoldsProgram == Holds(programArea, StoredProgram)
StoresAs(area, len, stored, none) ==
  Holds(area, stored) /\ len = IF Len(stored) = 1 THEN none ELSE Len(stored)

\* C22: when # ends a PROG session, the program area holds the lines the
\* tokenizer accepted, in the order they were typed and from the top of the
\* area: each as a length byte equal to the number of code bytes after it up
\* to and including its EOL, then a zero length byte.  Empty lines, lines of
\* blanks, '' comments and refused lines leave nothing.  (As stated:
\* progLength is the number of bytes so stored.)
C22_ProgLengthIsStored ==
  [][ProgEnds => StoresAs(programArea', progLength', StoredProgram, 1)]_vars

\* C22 (amended): the same, and progLength counts the stored bytes with the
\* zero length byte when at least one line was stored, and is 0 when none was.
C22_ProgStores ==
  [][ProgEnds => StoresAs(programArea', progLength', StoredProgram, 0)]_vars
C22_Witness ==
  /\ Catalogue[scen] = Storing /\ pc = "repl" /\ nrepl = 2 /\ fed = 0
  /\ AreaHoldsProgram /\ progLength = 15 /\ programArea[0] = 4 /\ programArea[5] = 8
  /\ programArea[14] = 0
C22_Empty ==
  /\ Catalogue[scen] = StoreNothing /\ pc = "repl" /\ nrepl = 1 /\ fed = 0
  /\ programArea[0] = 0 /\ progLength = 0

\* the statement code the executor dispatches next, and the step that
\* dispatches it (no break arrives at the poll before it).
NextOp ==
  IF pc # "run" THEN 0
  ELSE IF InCode(executionPointer) THEN internalcodeBuff[executionPointer - CodeBase]
  ELSE programArea[executionPointer]
Executes(op) == NextOp = op /\ nbrk' = nbrk

\* ---------------------------------------------------------------------------
TopOf(area, len) == [i \in 1..len |-> area[i - 1]]
Written(e, area, len) ==
  /\ e.magic1 = EEP_MAGIC_1 /\ e.magic2 = EEP_MAGIC_2
  /\ e.progLength = len /\ e.prog = TopOf(area, len)
SaveWrites ==
  eep' # eep =>
    /\ NextOp = ST_SAVE /\ lineNumber = 0
    /\ \/ eep' = EepErased
       \/ programArea[0] # ST_EOL /\ Written(eep', programArea, progLength)
LoadRestores ==
  (Executes(ST_LOAD) /\ errorCode' = ERROR_NONE) =>
    /\ progLength' = eep.progLength
    /\ TopOf(programArea', progLength') = eep.prog
    /\ eep' = eep
SaveOfNothing ==
  (Executes(ST_SAVE) /\ lineNumber = 0 /\ programArea[0] = ST_EOL /\ eep' # EepErased) =>
    (errorCode' = ERROR_PGEMPTY /\ eep' = eep)

\* C23: SAVE followed by LOAD is a round trip.  The store changes only when
\* a SAVE or SAVE ! of a non-empty program writes the first progLength bytes
\* of the program area and progLength to it (or SAVE 0 erases it), so that
\* PROG and NEW in between leave it alone; a LOAD that succeeds puts the
\* stored bytes back at the top of the program area and the stored length in
\* progLength; SAVE and SAVE ! of an empty program raise PG empty and leave
\* the store as it is.
C23_SaveLoadRoundTrip == [][SaveWrites /\ LoadRestores /\ SaveOfNothing]_vars
C23_Witness ==
  /\ Catalogue[scen] = SaveLoad /\ lastOp = ST_LOAD /\ errorCode = ERROR_NONE /\ nrepl = 3
  /\ progLength = 13 /\ Written(eep, programArea, progLength)
  /\ programArea[0] = 4 /\ programArea[1] = Ord("A")

\* ---------------------------------------------------------------------------
Recognised(e) ==
  /\ e.magic1 = EEP_MAGIC_1 /\ e.magic2 = EEP_MAGIC_2
  /\ e.progLength >= 2 /\ e.progLength <= PROGRAM_AREA_SIZE
TooLong(e) ==
  e.magic1 = EEP_MAGIC_1 /\ e.magic2 = EEP_MAGIC_2 /\ e.progLength > PROGRAM_AREA_SIZE
Loads == Executes(ST_LOAD) /\ lineNumber = 0
LoadRefuses(error) ==
  /\ (Loads /\ Recognised(eep)) => errorCode' = ERROR_NONE
  /\ (Loads /\ ~Recognised(eep)) =>
        /\ errorCode' = error
        /\ programArea' = programArea /\ progLength' = progLength

\* C24: LOAD takes the store for a snapshot only when both magic bytes match
\* and the stored length is between 2 and PROGRAM_AREA_SIZE; otherwise (an
\* erased store, a foreign magic byte, a length below 2 or above the area)
\* it leaves the program area and progLength as they are.  (As stated: and
\* raises PG empty in each of these cases.)
C24_LoadEmpty == [][LoadRefuses(ERROR_PGEMPTY)]_vars

\* C24 (amended): the same, but a length above PROGRAM_AREA_SIZE under a
\* matching magic raises PG area overflow; the other cases raise PG empty.
C24_LoadRefuses ==
  [][LoadRefuses(IF TooLong(eep) THEN ERROR_PGOVER ELSE ERROR_PGEMPTY)]_vars
C24_Witness ==
  /\ Catalogue[scen] = Snapshot /\ lastOp = ST_LOAD /\ pc = "repl" /\ nrepl = 2
  /\ eep.magic1 = EEP_MAGIC_1 /\ eep.magic2 = 255
  /\ errorCode = ERROR_PGEMPTY /\ progLength = 6 /\ programArea[0] = 4

\* ---------------------------------------------------------------------------
RunsSnapshot(e, p, line, ptr, err, area) ==
  /\ p = "run" /\ line = 1 /\ ptr = 1 /\ err = ERROR_NONE
  /\ TopOf(area, e.progLength) = e.prog
BackAtPrompt(p, err, variables) ==
  /\ p = "repl" /\ err = ERROR_BREAK
  /\ \A i \in 0..(VARIABLE_NUM - 1) : variables[i] = 0
AutoRunStarts(broke, e, p, line, ptr, err, area, variables) ==
  (Recognised(e) /\ e.autoRun) =>
    IF broke THEN BackAtPrompt(p, err, variables)
    ELSE RunsSnapshot(e, p, line, ptr, err, area)
Rebooted == NextOp = ST_RESET /\ internalcodeBuff[0] # 0 /\ internalcodeBuff'[0] = 0

\* C25: when basicInit finds a snapshot with the auto-run flag (at power-on
\* and after RESET), the stored program is loaded and its execution starts
\* at line 1 if no 0x03 arrives during the wait; if one arrives, no statement
\* of the program is executed and the REPL prompt appears after Break.
C25_AutoRun ==
  /\ AutoRunStarts(nbrk = 1, eep, pc, lineNumber, executionPointer, errorCode,
                   programArea, globalVariables)
  /\ [][Rebooted =>
          AutoRunStarts(nbrk' = nbrk + 1, eep', pc', lineNumber', executionPointer',
                        errorCode', programArea', globalVariables')]_vars
C25_Witness ==
  /\ Catalogue[scen] = AutoRun /\ eep.autoRun /\ lastOp = ST_RESET /\ nrepl = 3
  /\ internalcodeBuff[0] = 0 /\ pc = "run" /\ lineNumber = 1 /\ programArea[1] = Ord("B")
C25_Cancelled ==
  /\ Catalogue[scen] = AutoRun /\ eep = SavedToRun /\ nrepl = 0 /\ nbrk = 1
  /\ pc = "repl" /\ errorCode = ERROR_BREAK

\* ---------------------------------------------------------------------------
\* the stored lines by their length bytes: where line k begins.
RECURSIVE LineStart(_)
LineStart(k) == IF k = 1 THEN 0 ELSE LineStart(k - 1) + programArea[LineStart(k - 1)] + 1
RECURSIVE LinesStored(_, _)
LinesStored(p, k) ==
  IF p >= PROGRAM_AREA_SIZE \/ programArea[p] = ST_EOL THEN k
  ELSE LinesStored(p + programArea[p] + 1, k + 1)
LabelOf(k) == get_dec_val(M(NoInput), LineStart(k) + 1)
Carries(k, n) == LabelOf(k).p # NULL /\ LabelOf(k).v = n
Target == Eval(Adv(M(NoInput), 1)).v
LandsOn(k, line, ptr) == line = k /\ ptr = LabelOf(k).p
JumpsTo(n, lines, op) ==
  /\ errorCode' = ERROR_NONE =>
       /\ \E k \in 1..lines :
            /\ Carries(k, n) /\ \A j \in 1..(k - 1) : ~Carries(j, n)
            /\ LandsOn(k, lineNumber', executionPointer')
       /\ stackPointer' = stackPointer + (IF op = ST_GOSUB THEN 1 ELSE 0)
  /\ errorCode' = ERROR_LABEL => \A k \in 1..lines : ~Carries(k, n)
  /\ (\A k \in 1..lines : ~Carries(k, n)) => errorCode' # ERROR_NONE
  /\ errorCode' # ERROR_NONE => stackPointer' = stackPointer

\* C26: GOTO n and GOSUB n continue at the first stored line, in storage
\* order, that begins with the value n: lineNumber becomes that line's
\* position in the program and execution goes on behind the label; when no
\* stored line begins with n they raise Label not found; a GOSUB that fails
\* leaves the depth of the control stack as it was, one that jumps adds one
\* frame.
C26_FirstLabelWins ==
  [][\A op \in { ST_GOTO, ST_GOSUB } :
       Executes(op) => JumpsTo(Target, LinesStored(0, 0), op)]_vars
C26_Witness ==
  /\ Catalogue[scen] = Labels /\ lastOp = ST_GOTO /\ errorCode = ERROR_NONE
  /\ pc = "run" /\ lineNumber = 3 /\ Carries(3, 20) /\ Carries(4, 20)
  /\ executionPointer = LabelOf(3).p /\ stackPointer = 1
C26_NoLabel ==
  /\ Catalogue[scen] = Labels /\ lastOp = ST_GOSUB /\ errorCode = ERROR_LABEL
  /\ lineNumber = 6 /\ stackPointer = 1 /\ before.depth = 1

\* ---------------------------------------------------------------------------
RECURSIVE BehindOperand(_)
BehindOperand(p) ==
  IF isDelimiter(Rd(M(NoInput), p)) THEN p ELSE BehindOperand(get_next_ptr(M(NoInput), p))
GosubFrames == { i \in 0..(stackPointer - 1) : stacks[i].type = ST_GOSUB }
TopGosub == CHOOSE i \in GosubFrames : \A j \in GosubFrames : j <= i
GosubPushes ==
  (Executes(ST_GOSUB) /\ errorCode' = ERROR_NONE) =>
    /\ stackPointer' = stackPointer + 1
    /\ stacks'[stackPointer].type = ST_GOSUB
    /\ stacks'[stackPointer].returnLineNumber = lineNumber
    /\ stacks'[stackPointer].returnPointer = BehindOperand(executionPointer + 1)
FramesStay ==
  \A i \in 0..(STACK_NUM - 1) : (i < stackPointer /\ i < stackPointer') => stacks'[i] = stacks[i]
ReturnGoesBack ==
  Executes(ST_RETURN) =>
    /\ GosubFrames = {} => errorCode' = ERROR_UXRETURN
    /\ errorCode' = ERROR_UXRETURN => GosubFrames = {}
    /\ errorCode' = ERROR_NONE =>
         /\ stackPointer' = TopGosub
         /\ executionPointer' = stacks[TopGosub].returnPointer
         /\ lineNumber' = stacks[TopGosub].returnLineNumber

\* C27: a GOSUB that jumps leaves on the control stack, at the depth it found,
\* a GOSUB frame with its own line and the position behind its operand; no
\* step changes a frame that stays on the stack; RETURN goes back to the
\* topmost GOSUB frame: the frames above it (FOR, DO) are discarded with it,
\* so that the depth is the one that GOSUB found, and execution goes on at the
\* frame's position and line; without a GOSUB frame on the stack RETURN
\* raises Unexpected Return.
C27_ReturnUnwinds == [][GosubPushes /\ FramesStay /\ ReturnGoesBack]_vars
C27_Witness ==
  /\ lastOp = ST_RETURN /\ errorCode = ERROR_NONE /\ pc = "run" /\ lineNumber > 0
  /\ before.depth >= 2 /\ before.top = ST_FOR /\ stackPointer = before.depth - 2

\* ---------------------------------------------------------------------------
Operand(m, p) ==
  LET signed(neg, d) == [p |-> d.p, v |-> IF neg THEN 0 - d.v ELSE d.v]
  IN signed(Rd(m, p) = Ord("-"), get_dec_val(m, IF Rd(m, p) = Ord("-") THEN p + 1 ELSE p))
Header ==
  LET read(m, at) ==
        LET all(a, b, st) ==
              [plain |-> /\ isupper(Rd(m, at)) /\ Rd(m, at + 1) = Ord("=")
                         /\ a.p # NULL /\ Rd(m, a.p) = ST_TO /\ b.p # NULL
                         /\ \/ isDelimiter(Rd(m, b.p))
                            \/ Rd(m, b.p) = ST_STEP /\ st.p # NULL /\ isDelimiter(Rd(m, st.p)),
               pvar |-> Rd(m, at) - Ord("A"), from |-> a.v, to |-> b.v,
               step |-> IF b.p # NULL /\ Rd(m, b.p) = ST_STEP THEN st.v ELSE 1,
               end |-> IF b.p # NULL /\ Rd(m, b.p) = ST_STEP THEN st.p ELSE b.p]
            upTo(a, b) == all(a, b, Operand(m, IF b.p = NULL THEN at ELSE b.p + 1))
            from(a) == upTo(a, Operand(m, IF a.p = NULL THEN at ELSE a.p + 1))
        IN from(Operand(m, at + 2))
  IN read(M(NoInput), executionPointer + 1)
ForEnters(h) ==
  (Executes(ST_FOR) /\ h.plain /\ stackPointer < STACK_NUM) =>
    /\ errorCode' = ERROR_NONE
    /\ globalVariables'[h.pvar] = h.from
    /\ stackPointer' = stackPointer + 1
    /\ stacks'[stackPointer].type = ST_FOR /\ stacks'[stackPointer].pvar = h.pvar
    /\ stacks'[stackPointer].limit = h.to /\ stacks'[stackPointer].step = h.step
    /\ stacks'[stackPointer].returnPointer = h.end
    /\ stacks'[stackPointer].returnLineNumber = lineNumber
    /\ executionPointer' = h.end /\ lineNumber' = lineNumber
NextOf(f, v, w) ==
  LET within == IF f.step > 0 THEN w <= f.limit ELSE w >= f.limit
      falls(x) == /\ stackPointer' = stackPointer - 1 /\ executionPointer' = executionPointer + 1
                  /\ lineNumber' = lineNumber /\ GetVar(M(NoInput), f.pvar) = v
                  /\ x = IF f.pvar < VARIABLE_NUM THEN globalVariables'[f.pvar]
                          ELSE arrayValiables'[f.pvar - VARIABLE_NUM]
      back == /\ stackPointer' = stackPointer /\ stacks' = stacks
              /\ executionPointer' = f.returnPointer /\ lineNumber' = f.returnLineNumber
              /\ w = IF f.pvar < VARIABLE_NUM THEN globalVariables'[f.pvar]
                      ELSE arrayValiables'[f.pvar - VARIABLE_NUM]
  IN IF v = f.limit THEN falls(v) ELSE IF within THEN back ELSE falls(w)
NextCounts ==
  (Executes(ST_NEXT) /\ stackPointer > 0 /\ stacks[stackPointer - 1].type = ST_FOR
     /\ isDelimiter(Rd(M(NoInput), executionPointer + 1))) =>
    /\ errorCode' = ERROR_NONE
    /\ NextOf(stacks[stackPointer - 1], GetVar(M(NoInput), stacks[stackPointer - 1].pvar),
              Wrap(GetVar(M(NoInput), stacks[stackPointer - 1].pvar)
                   + stacks[stackPointer - 1].step))

\* C28: FOR v = a TO b [STEP s] gives a to v, pushes one FOR frame with the
\* limit b and the step s (1 without STEP) and goes on with the statement
\* behind its header, whatever a and b are; NEXT on a FOR frame pops it and
\* falls through when v = b; otherwise it adds the step to v and, when v is
\* still within the limit (v <= b for a step above 0, v >= b otherwise), goes
\* back behind the header with the frame kept, else falls through with the
\* frame popped.  (Checked for headers whose operands are literals.)
C28_ForNext == [][ForEnters(Header) /\ NextCounts]_vars
C28_Witness ==
  /\ Catalogue[scen] = Counting /\ lastOp = ST_NEXT /\ errorCode = ERROR_NONE /\ pc = "run"
  /\ lineNumber = 1 /\ globalVariables[8] = 5 /\ globalVariables[0] = 2
  /\ stackPointer = 0 /\ before.depth = 1
C28_BodyOnce ==
  /\ Catalogue[scen] = Counting /\ lastOp = ST_NEXT /\ errorCode = ERROR_NONE
  /\ lineNumber = 3 /\ globalVariables[10] = 6 /\ globalVariables[2] = 1 /\ stackPointer = 0

\* ---------------------------------------------------------------------------
\* the end of the statement that closes the loop, looked for from p token by
\* token (the lines looked at hold no string and no comment); NULL without.
RECURSIVE Closing(_, _, _)
Closing(p, count, closer) ==
  LET m == M(NoInput)
      c == Rd(m, p)
      openers == IF closer = ST_NEXT THEN { ST_FOR } ELSE { ST_DO, ST_WHILE }
      behind == IF closer = ST_LOOP /\ Rd(m, p + 1) = ST_WHILE THEN p + 2 ELSE p + 1
  IN IF c = ST_EOL
       THEN IF InCode(p) \/ Rd(m, p + 1) = ST_EOL THEN NULL ELSE Closing(p + 2, count, closer)
     ELSE IF c = closer
       THEN IF count = 1 THEN BehindOperand(behind) ELSE Closing(behind, count - 1, closer)
     ELSE IF c \in openers THEN Closing(p + 1, count + 1, closer)
     ELSE Closing(get_next_ptr(m, p), count, closer)
TopType == IF stackPointer = 0 THEN 0 ELSE stacks[stackPointer - 1].type
Leaves(end) ==
  IF end = NULL THEN errorCode' = ERROR_UXEXIT /\ stackPointer' = stackPointer
  ELSE /\ errorCode' = ERROR_NONE /\ stackPointer' = stackPointer - 1
       /\ executionPointer' = end
ExitLeaves ==
  (Executes(ST_EXIT) /\ isDelimiter(Rd(M(NoInput), executionPointer + 1))) =>
    IF TopType \in { ST_FOR, ST_DO }
      THEN Leaves(Closing(executionPointer + 1, 1,
                          IF TopType = ST_FOR THEN ST_NEXT ELSE ST_LOOP))
      ELSE errorCode' = ERROR_UXEXIT /\ stackPointer' = stackPointer

\* C29: EXIT with a FOR or DO frame on top pops that frame and goes on at
\* the end of the statement that closes the loop, NEXT for a FOR frame, LOOP
\* or LOOP WHILE expr for a DO frame, with the loops that open behind the
\* EXIT passed over together with their own NEXT or LOOP; without a frame,
\* with a GOSUB frame on top or without a closing statement it raises
\* Unexpected Exit and the depth stays.
C29_ExitLeavesLoop == [][ExitLeaves]_vars

\* ---------------------------------------------------------------------------
RECURSIVE Closer(_, _)
Closer(p, count) ==
  LET m == M(NoInput)
      c == Rd(m, p)
      behind == IF Rd(m, p + 1) = ST_WHILE THEN p + 2 ELSE p + 1
  IN IF c = ST_EOL
       THEN IF InCode(p) \/ Rd(m, p + 1) = ST_EOL THEN NULL ELSE Closer(p + 2, count)
     ELSE IF c = ST_LOOP THEN IF count = 1 THEN p ELSE Closer(behind, count - 1)
     ELSE IF c \in { ST_DO, ST_WHILE } THEN Closer(p + 1, count + 1)
     ELSE Closer(get_next_ptr(m, p), count)
WhileSkips(loop) ==
  IF loop = NULL THEN errorCode' = ERROR_NOLOOP /\ stackPointer' = stackPointer
  ELSE Rd(M(NoInput), loop + 1) # ST_WHILE =>
         /\ errorCode' = ERROR_NONE /\ stackPointer' = stackPointer /\ stacks' = stacks
         /\ executionPointer' = loop + 1
WhileOpens(cond) ==
  /\ errorCode' = ERROR_NONE /\ stackPointer' = stackPointer + 1
  /\ stacks'[stackPointer].type = ST_DO
  /\ stacks'[stackPointer].returnPointer = executionPointer
  /\ stacks'[stackPointer].returnLineNumber = lineNumber
  /\ executionPointer' = cond.s.executionPointer /\ lineNumber' = lineNumber
WhileTests(cond) ==
  (Executes(ST_WHILE) /\ cond.s.errorCode = ERROR_NONE /\ isDelimiter(Cur(cond.s))
     /\ stackPointer < STACK_NUM) =>
    IF cond.v # 0 THEN WhileOpens(cond)
    ELSE WhileSkips(Closer(cond.s.executionPointer, 1))

C30_NoLoop ==
  /\ Catalogue[scen] = WhileLoop /\ lastOp = ST_WHILE /\ errorCode = ERROR_NOLOOP
  /\ pc = "repl" /\ globalVariables[3] = 1 /\ stackPointer = 0

\* ---------------------------------------------------------------------------
\* where a string that begins before p ends, and where the line of p ends.
RECURSIVE BehindString(_), LineEnd(_)
BehindString(p) ==
  LET c == Rd(M(NoInput), p)
  IN IF c = ST_STRING THEN p + 1 ELSE IF c = ST_EOL THEN p
     ELSE BehindString(IF c = Ord("\\") THEN p + 2 ELSE p + 1)
LineEnd(p) == IF Rd(M(NoInput), p) = ST_EOL THEN p ELSE LineEnd(p + 1)
\* the end of the first of the statements stops that stands behind p at the
\* nesting depth of p, the IF ... ENDIF blocks on the way passed over whole,
\* looked for token by token, line by line; NULL without.
RECURSIVE BranchEnd(_, _, _)
BranchEnd(p, depth, stops) ==
  LET m == M(NoInput)
      c == Rd(m, p)
  IN IF c = ST_EOL
       THEN IF InCode(p) \/ Rd(m, p + 1) = ST_EOL THEN NULL ELSE BranchEnd(p + 2, depth, stops)
     ELSE IF c = ST_COMMENT THEN BranchEnd(LineEnd(p), depth, stops)
     ELSE IF c = ST_STRING THEN BranchEnd(BehindString(p + 1), depth, stops)
     ELSE IF c = ST_IF THEN BranchEnd(p + 1, depth + 1, stops)
     ELSE IF c = ST_ENDIF /\ depth > 0 THEN BranchEnd(p + 1, depth - 1, stops)
     ELSE IF depth = 0 /\ c \in stops THEN p + 1
     ELSE BranchEnd(get_next_ptr(m, p), depth, stops)
\* where IF goes on, p being where its condition begins: behind THEN when
\* the condition is not 0, else in the same way behind the next ELSEIF of its
\* depth, behind ELSE, behind ENDIF; NULL without any of them.  Unplain when
\* a condition cannot be evaluated or no THEN follows it.
Unplain == NULL - 1
RECURSIVE Taken(_)
Taken(p) ==
  LET cond == Eval([M(NoInput) EXCEPT !.executionPointer = p])
      alt == BranchEnd(cond.s.executionPointer + 1, 0, { ST_ENDIF, ST_ELSE, ST_ELSEIF })
  IN IF cond.s.errorCode # ERROR_NONE \/ Cur(cond.s) # ST_THEN THEN Unplain
     ELSE IF cond.v # 0 THEN cond.s.executionPointer + 1
     ELSE IF alt = NULL THEN NULL
     ELSE IF Rd(M(NoInput), alt - 1) = ST_ELSEIF THEN Taken(alt)
     ELSE alt
\* a line number behind THEN or ELSE is a GOTO (C26).
GoesOnAt(target) ==
  IF target = Unplain THEN TRUE
  ELSE IF target = NULL THEN errorCode' = ERROR_NOENDIF /\ pc' = "repl"
  ELSE IF IS_VAL(Rd(M(NoInput), target)) THEN TRUE
  ELSE /\ errorCode' = ERROR_NONE /\ executionPointer' = target
       /\ stackPointer' = stackPointer /\ globalVariables' = globalVariables
IfBranches ==
  /\ Executes(ST_IF) => GoesOnAt(Taken(executionPointer + 1))
  /\ (Executes(ST_ELSE) \/ Executes(ST_ELSEIF)) =>
       GoesOnAt(BranchEnd(executionPointer + 1, 0, { ST_ENDIF }))

\* C31: IF goes on behind the THEN of the first condition, its own or an
\* ELSEIF's, that is not 0, else behind ELSE, else behind ENDIF, and an ELSE
\* or ELSEIF that ends the branch taken goes on behind ENDIF, all three of
\* the depth of the IF, the IF ... ENDIF blocks inside the branches left out
\* being passed over whole: exactly one branch or none is executed.  A false
\* IF without any of them at its depth raises Endif not found.
C31_OneBranch == [][IfBranches]_vars

\* ---------------------------------------------------------------------------
\* the values of the DATA statements stored from p on, in storage order,
\* each with the place where it ends (value is TRUE at the start of a value).
RECURSIVE DataFrom(_, _)
DataFrom(p, value) ==
  LET m == M(NoInput)
      c == Rd(m, p)
      item(r) ==
        << [v |-> r.v, end |-> r.s.executionPointer] >>
          \o (IF Cur(r.s) = Ord(",") THEN DataFrom(r.s.executionPointer + 1, TRUE)
              ELSE DataFrom(r.s.executionPointer, FALSE))
  IN IF value THEN item(Eval([m EXCEPT !.executionPointer = p]))
     ELSE IF c = ST_EOL THEN IF Rd(m, p + 1) = ST_EOL THEN << >> ELSE DataFrom(p + 2, FALSE)
     ELSE IF c = ST_COMMENT THEN DataFrom(LineEnd(p), FALSE)
     ELSE IF c = ST_STRING THEN DataFrom(BehindString(p + 1), FALSE)
     ELSE IF c = ST_DATA THEN DataFrom(p + 1, TRUE)
     ELSE DataFrom(get_next_ptr(m, p), FALSE)
DataItems == IF programArea[0] = ST_EOL THEN << >> ELSE DataFrom(1, FALSE)
\* how many of them lie before the cursor.
Delivered(items) ==
  Cardinality({ i \in 1..Len(items) : dataReadPointer # NULL /\ items[i].end <= dataReadPointer })
ReadDelivers(items, k, var) ==
  IF k < Len(items)
    THEN /\ errorCode' = ERROR_NONE /\ globalVariables'[var] = items[k + 1].v
         /\ dataReadPointer' = items[k + 1].end
    ELSE /\ errorCode' = ERROR_UXREAD /\ globalVariables'[var] = globalVariables[var]
ReadsNext(items) ==
  (Executes(ST_READ) /\ lineNumber > 0 /\ isupper(Rd(M(NoInput), executionPointer + 1))
     /\ isDelimiter(Rd(M(NoInput), executionPointer + 2))) =>
    ReadDelivers(items, Delivered(items), Rd(M(NoInput), executionPointer + 1) - Ord("A"))
CursorResets ==
  /\ (Executes(ST_RESTORE) /\ isDelimiter(Rd(M(NoInput), executionPointer + 1))) =>
       errorCode' = ERROR_NONE /\ dataReadPointer' = NULL
  /\ (Executes(ST_RUN) /\ isDelimiter(Rd(M(NoInput), executionPointer + 1))) =>
       dataReadPointer' = NULL

\* C32: in a run, READ gives to its variable the value that follows the
\* values read so far in the sequence of the values of all DATA statements
\* of the program in storage order, and moves the cursor behind it; with no
\* value left it raises Unexpected Read and the variable keeps its value;
\* RESTORE and RUN put the cursor back before the first value.
C32_ReadsInOrder == [][ReadsNext(DataItems) /\ CursorResets]_vars

\* ---------------------------------------------------------------------------
Cleared ==
  stackPointer' = 0 /\ resumePointer' = NULL /\ resumeLineNumber' = 0 /\ dataReadPointer' = NULL
EndStops ==
  (Executes(ST_END) /\ isDelimiter(Rd(M(NoInput), executionPointer + 1))) =>
    /\ Cleared /\ pc' = "repl" /\ errorCode' = ERROR_NONE
    /\ globalVariables' = globalVariables /\ arrayValiables' = arrayValiables
    /\ programArea' = programArea /\ progLength' = progLength
NewEmpties ==
  (Executes(ST_NEW) /\ isDelimiter(Rd(M(NoInput), executionPointer + 1))) =>
    /\ Cleared /\ errorCode' = ERROR_NONE
    /\ \A i \in 0..(VARIABLE_NUM - 1) : globalVariables'[i] = 0
    /\ \A i \in 0..(ARRAY_INDEX_NUM - 1) : arrayValiables'[i] = 0
    /\ progLength' = 0 /\ programArea'[0] = ST_EOL
ResumeRefused ==
  (Executes(ST_RESUME) /\ resumePointer = NULL) =>
    /\ errorCode' \in { ERROR_RESUME, ERROR_SYNTAX } /\ pc' = "repl"
    /\ isDelimiter(Rd(M(NoInput), executionPointer + 1)) => errorCode' = ERROR_RESUME

C33_CannotResume ==
  /\ Catalogue[scen] = Ending /\ lastOp = ST_RESUME /\ pc = "repl" /\ errorCode = ERROR_RESUME
  /\ nrepl = 3 /\ nbrk = 0 /\ globalVariables[1] = 1 /\ globalVariables[3] = 0

\* ---------------------------------------------------------------------------
AllZero ==
  /\ \A i \in 0..(VARIABLE_NUM - 1) : globalVariables'[i] = 0
  /\ \A i \in 0..(ARRAY_INDEX_NUM - 1) : arrayValiables'[i] = 0
\* the first statement of stored line 1 stands behind its label.
FirstStatement ==
  IF isdigit(programArea[1]) \/ IS_ST_VAL_DEC(programArea[1])
    THEN get_next_ptr(M(NoInput), 1) ELSE 1
RunStarts ==
  (Executes(ST_RUN) /\ isDelimiter(Rd(M(NoInput), executionPointer + 1))) =>
    /\ AllZero /\ Cleared /\ errorCode' = ERROR_NONE
    /\ IF programArea[0] = ST_EOL THEN pc' = "repl"
       ELSE pc' = "run" /\ lineNumber' = 1 /\ executionPointer' = FirstStatement
ValuesKept == globalVariables' = globalVariables /\ arrayValiables' = arrayValiables
\* a line is typed at the prompt; a line typed at the prompt has been run.
LineTyped == pc = "repl" /\ nrepl' = nrepl + 1
LineDone == pc = "run" /\ lineNumber = 0 /\ NextOp = ST_EOL
LinesKeepValues == (LineTyped \/ LineDone) => ValuesKept

\* C34: RUN zeroes the 26 variables and the whole array, empties the control
\* stack, clears the resume snapshot and the DATA cursor and, with a program
\* stored, goes on in Run mode at the first statement of stored line 1 with
\* lineNumber = 1; taking a line at the prompt and ending it change no
\* variable and no array element, so that the values a line leaves are the
\* values the next line finds (RESET restarts the machine as power-on does).
C34_RunStartsClean == [][RunStarts /\ LinesKeepValues]_vars
C34_Witness ==
  /\ Catalogue[scen] = Ending /\ lastOp = ST_RUN /\ pc = "run" /\ lineNumber = 1
  /\ before.depth = 1 /\ before.vars[0] = 5 /\ before.vars[1] = 1 /\ before.arr[1] = 7
  /\ nbrk = 1 /\ executionPointer = 3 /\ stackPointer = 0 /\ globalVariables[0] = 0
  /\ arrayValiables[1] = 0 /\ resumePointer = NULL /\ dataReadPointer = NULL

\* ---------------------------------------------------------------------------
\* the line typed last at the REPL prompt is line.
TypedLast(line) ==
  LET same(r) == \A i \in 1..Len(r.dst) : internalcodeBuff[i] = r.dst[i]
  IN same(convertInternalCode(Codes(line)))
CrLf == << 13, 10 >>
EndsWith(text, tail) ==
  Len(text) >= Len(tail) /\ SubSeq(text, Len(text) - Len(tail) + 1, Len(text)) = tail
Contains(text, part) ==
  \E i \in 1..Len(text) : StartsWith(SubSeq(text, i, Len(text)), part)
ErrorName ==
  (IF errorCode >= ERROR_UXNEXT /\ errorCode # ERROR_BREAK
     THEN Codes(<<"U","n","e","x","p","e","c","t","e","d"," ">>) ELSE << >>)
  \o (IF errorCode <= ERROR_CODE_MAX THEN Codes(errorSting[errorCode + 1]) ELSE << >>)

\* C35: PRINT ends its output line with CR then LF, and an error message
\* starts with CR then LF: the line ? 120+3 writes 123, CR, LF, and the
\* return to the prompt that follows writes OK, CR, LF.
C35_CrThenLf ==
  /\ (lastOp = ST_PRINT /\ pc = "run" /\ errorCode = ERROR_NONE /\ out # << >>
        /\ out[Len(out)] \in { 10, 13 })
       => EndsWith(out, CrLf)
  /\ (pc = "repl" /\ exit = "error") => Contains(out, CrLf \o ErrorName)
  /\ (pc = "repl" /\ exit = "eol") => out = Codes(<<"O","K">>) \o CrLf
  /\ (lastOp = ST_PRINT /\ pc = "run" /\ lineNumber = 0
        /\ TypedLast(<<"?"," ","1","2","0","+","3">>))
       => out = Codes(<<"1","2","3">>) \o CrLf

\* ---------------------------------------------------------------------------
\* the line ? DEC(e,w) has been executed; what it wrote before the newline.
Printed == probe.stage = "printed" /\ probe.err = ERROR_NONE
Field == SubSeq(probe.text, 1, Len(probe.text) - 2)
NewlineFollows ==
  /\ Len(probe.text) >= 2
  /\ { probe.text[Len(probe.text) - 1], probe.text[Len(probe.text)] } = { 10, 13 }

\* the decimal digits of v >= 0, and the last k of them behind zeros.
RECURSIVE DigitsOf(_)
DigitsOf(v) ==
  IF v < 10 THEN << Ord("0") + v >> ELSE DigitsOf(v \div 10) \o << Ord("0") + (v % 10) >>
LowDigits(v, k) ==
  LET filled(t) == SubSeq(t, Len(t) - k + 1, Len(t))
  IN filled(Pad(k, Ord("0")) \o DigitsOf(v))
\* e >= 0 in n digit positions (as many as the value and one digit before
\* the point need when n = 0) with the point d digits from the right.
PointField(e, d, n) ==
  LET needs == IF Len(DigitsOf(e)) > d + 1 THEN Len(DigitsOf(e)) ELSE d + 1
      k == IF n = 0 \/ needs < n THEN needs ELSE n
      low == LowDigits(e, k)
  IN Pad(IF n = 0 THEN 0 ELSE n - k, ASCII_SP)
       \o (IF k >= d THEN SubSeq(low, 1, k - d) \o << Ord(".") >> \o SubSeq(low, k - d + 1, k)
           ELSE low)

ReadVariable == isupper(Byte(executionPointer + 1))
ReadMoves ==
  (Executes(ST_READ) /\ ReadVariable) =>
    /\ executionPointer' = executionPointer + 2
    /\ lineNumber' = lineNumber
    /\ stackPointer' = stackPointer

\* C37: READ of a variable, whether it delivers a value or raises an error,
\* leaves executionPointer behind the variable and lineNumber and
\* stackPointer as they were, wherever the DATA statement it reads lies.
C37_ReadIsTransparent == [][ReadMoves]_vars

\* ---------------------------------------------------------------------------
\* p is where a token of the stored program begins: the walk over the
\* tokens of a stored line, from q to the line's EOL at end, comes to p.
RECURSIVE WalkMeets(_, _, _)
WalkMeets(p, q, end) ==
  IF q > end THEN FALSE
  ELSE IF q = p THEN TRUE
  ELSE WalkMeets(p, get_next_ptr(M(NoInput), q), end)
OnToken(p) ==
  \E k \in 1..LinesStored(0, 0) :
    WalkMeets(p, LineStart(k) + 1, LineStart(k) + programArea[LineStart(k)])
\* PROG has taken its last line, #; LOAD has read the snapshot.
LoadReads == Executes(ST_LOAD) /\ errorCode' = ERROR_NONE /\ lineNumber = 0
ReplacedClears ==
  /\ (ProgEnds \/ LoadReads) => Cleared
  /\ (resumePointer # NULL) => OnToken(resumePointer)
  /\ (Executes(ST_RESUME) /\ errorCode' = ERROR_NONE) => OnToken(executionPointer')

\* C38: a resume snapshot points at a statement of the program in the
\* program area: PROG and LOAD, when they have put a program there, leave
\* no snapshot, no DATA cursor and no frame on the control stack, and RESUME
\* goes on at a token of the stored program or raises Can't resume.
C38_SnapshotOfThisProgram == [][ReplacedClears]_vars

\* ---------------------------------------------------------------------------
\* p is where a token begins, in the stored program or in the line of the
\* REPL that is being executed.
OnTokenOfLine(p) ==
  IF InCode(p) THEN WalkMeets(p, CodeBase + 1, CodeBase + internalcodeBuff[0])
  ELSE OnToken(p)
\* EXIT has left a loop; WHILE has found its condition 0 and its LOOP.
LoopLeft ==
  /\ Executes(ST_EXIT) \/ (Executes(ST_WHILE) /\ stackPointer' = stackPointer)
  /\ errorCode' = ERROR_NONE
LeavesAtDelimiter ==
  LoopLeft => /\ OnTokenOfLine(executionPointer')
              /\ isDelimiter(Byte(executionPointer'))

\* C39: EXIT and a WHILE whose condition is 0 go on at the delimiter that
\* ends the NEXT, LOOP or LOOP WHILE expr that closes the loop, which is
\* where a token begins and never a payload byte of a literal of expr.
C39_ResumesAtDelimiter == [][LeavesAtDelimiter]_vars

\* ---------------------------------------------------------------------------
\* C40: a FOR loop whose body leaves the loop variable alone ends: for every
\* start, limit and step other than 0, NEXT falls through after finitely
\* many turns, also when the addition of the step wraps around.
C40_ForTerminates == (probe.stage = "looping") ~> (probe.stage = "fell")

====
